---- MODULE Spec2Model ----
(***************************************************************************)
(* Model of skills/agents-init/scripts/supervise_agents.py: the control    *)
(* loop of the supervisor (run_plain / run_curses), its scheduler          *)
(* (start_ready_agents, deps_satisfied, wait_for_status), the per-agent    *)
(* turn state machine (process_event, start_agent_prompt,                  *)
(* queue_agent_prompt), the operator commands (handle_user_command) and    *)
(* the approval indices of the interactive front end.                      *)
(*                                                                         *)
(* The external runtime (the app-server subprocess) is modelled by the     *)
(* Runtime* actions: it creates sessions, runs turns, emits events and     *)
(* approval requests.  Strings are sequences of one-character strings.     *)
(***************************************************************************)
EXTENDS Integers, Sequences, FiniteSets, TLC

VARIABLES
    args,                \* parsed command line: agent specs, max_parallel, review, timeout, front end
    pending_prompts,     \* deque of not yet started specs
    remaining,           \* start_ready_agents' local deque, live while a gate wait blocks the scan
    waiting,             \* the spec whose start_agent is inside wait_for_status, or NoItem
    agents,              \* thread id -> agent record
    pending_reviews,     \* review thread id -> index of the reviewed agent
    events,              \* server._events
    requests,            \* server._requests
    approval_queue,      \* global FIFO of approval entries (run_curses)
    approvals_by_thread, \* thread id -> FIFO of approval entries (run_curses)
    rt,                  \* the runtime: thread id -> [inflight, said]
    rt_next_req,         \* the runtime: id of its next server-initiated request
    files,               \* path -> first line of the file, or NoFile
    expired,             \* time.time() > deadline
    pc,                  \* position of the control loop
    turn_log,            \* history: every turn/start sent, in order
    queued_log,          \* history: every prompt handed to queue_agent_prompt, in order
    completed,           \* history: indices of agents that processed a turn/completed
    responded,           \* history: request id -> number of respond() calls
    outputs,             \* what the last operator command reported, and how many there were
    wait_hist,           \* history: per spec index, what its wait_for_status did
    lab,                 \* a pure function under test: its arguments and its result
    server,              \* the AppServer object, its subprocess' pipes and the flows calling it
    reviewed             \* review_labels, review_written, the artifacts written, the logs

vars == <<args, pending_prompts, remaining, waiting, agents, pending_reviews,
          events, requests, approval_queue, approvals_by_thread, rt, rt_next_req,
          files, expired, pc, turn_log, queued_log, completed, responded,
          outputs, wait_hist, lab, server, reviewed>>

(***************************************************************************)
(* Bounds of the model.                                                    *)
(***************************************************************************)
MaxCmds == 2        \* operator commands per run
MaxEvents == 2      \* events waiting in server._events
MaxRequests == 2    \* approval requests the runtime raises per run
MaxSleeps == 2      \* polling sleeps of one wait_for_status
MaxParts == 3       \* pieces of a prompt between `||`
MaxText == 4        \* characters of a summary text
MaxDeltas == 3      \* deltas the runtime streams on one thread
MaxItems == 3       \* review items the runtime completes per run
MaxCalls == 2       \* calls of request / notify / respond per run
MaxLines == 2       \* lines the subprocess writes per run

(***************************************************************************)
(* Strings.                                                                *)
(***************************************************************************)
Digits == {"0", "1", "2", "3", "4", "5", "6", "7", "8", "9"}
Whitespace == {" ", "\t", "\n", "\r"}

\* str.isdigit(): non-empty and every character a digit
IsDigit(s) == Len(s) > 0 /\ \A k \in 1..Len(s) : s[k] \in Digits

DigitVal(c) ==
    CASE c = "0" -> 0 [] c = "1" -> 1 [] c = "2" -> 2 [] c = "3" -> 3
      [] c = "4" -> 4 [] c = "5" -> 5 [] c = "6" -> 6 [] c = "7" -> 7
      [] c = "8" -> 8 [] c = "9" -> 9

\* int(s) for an all-digit s
RECURSIVE ToInt(_)
ToInt(s) ==
    IF s = <<>> THEN 0
    ELSE 10 * ToInt(SubSeq(s, 1, Len(s) - 1)) + DigitVal(s[Len(s)])

\* str.strip()
RECURSIVE LStrip(_)
LStrip(s) == IF s # <<>> /\ Head(s) \in Whitespace THEN LStrip(Tail(s)) ELSE s

RECURSIVE RStrip(_)
RStrip(s) ==
    IF s # <<>> /\ s[Len(s)] \in Whitespace THEN RStrip(SubSeq(s, 1, Len(s) - 1)) ELSE s

Strip(s) == RStrip(LStrip(s))

LowerChar(c) == CASE c = "A" -> "a" [] c = "B" -> "b" [] OTHER -> c

\* str.lower()
Lower(s) == [k \in 1..Len(s) |-> LowerChar(s[k])]

\* normalize_agent_key
normalize_agent_key(key) == Lower(Strip(key))

(***************************************************************************)
(* Values.                                                                 *)
(***************************************************************************)
None == "None"
NoName == <<>>                       \* parse_agent_name returned None
NoWait == [path |-> "", expected |-> <<>>]   \* extract_directives found no gate
\* In turn_log, the prompt of a turn the operator did not type (a spec's own
\* prompt, a review prompt); operator prompts are numbered from 1.
InitialPrompt == 0

NoFile == [exists |-> FALSE, first_line |-> <<>>]   \* open() raises FileNotFoundError
File(line) == [exists |-> TRUE, first_line |-> line]

\* A prompt body, reduced to what the loop reads of it: the (name:...) marker.
Prompt(name) == [name |-> name]

\* parse_agent_name: the marker's value, None when there is none or it is empty
parse_agent_name(prompt) == prompt.name

\* one entry of pending_prompts, as run_plain / run_curses build it
Item(index, name, wait, deps) ==
    [index |-> index, prompt |-> Prompt(name), wait |-> wait, deps |-> deps]

Gate(expected) == [path |-> "/tmp/x", expected |-> expected]

NoItem == Item(0, NoName, NoWait, <<>>)

\* a deadline whatever --timeout says
RunsTimeoutAlways(a) == TRUE

\* deadline = None if args.timeout <= 0 else time.time() + args.timeout
RunsTimeout(a) == a.timeout > 0     \* deadline is not None

\* max_parallel = args.max_parallel or len(args.agent)
max_parallel == IF args.max_parallel = 0 THEN Len(args.agent) ELSE args.max_parallel

(***************************************************************************)
(* Scheduler.                                                              *)
(***************************************************************************)
\* len([a for a in agents.values() if not a["done"]])
NonDone(ag) == Cardinality({t \in DOMAIN ag : ~ag[t].done})

\* deps_satisfied with the done flag ignored: any started agent counts
deps_satisfied_started(deps, ag) ==
    LET indices == {ag[t].index : t \in DOMAIN ag}
        names == {ag[t].name : t \in {u \in DOMAIN ag : ag[u].name # NoName}}
    IN  \A k \in 1..Len(deps) :
            IF IsDigit(deps[k]) THEN ToInt(deps[k]) \in indices ELSE deps[k] \in names

\* deps_satisfied that looks at the first token only
deps_satisfied_first(deps, ag) ==
    LET done_indices == {ag[t].index : t \in {u \in DOMAIN ag : ag[u].done}}
        done_names ==
            {ag[t].name : t \in {u \in DOMAIN ag : ag[u].done /\ ag[u].name # NoName}}
    IN  deps = <<>>
        \/ IF IsDigit(deps[1]) THEN ToInt(deps[1]) \in done_indices
           ELSE deps[1] \in done_names

deps_satisfied(deps, ag) ==
    LET done_indices == {ag[t].index : t \in {u \in DOMAIN ag : ag[u].done}}
        done_names ==
            {ag[t].name : t \in {u \in DOMAIN ag : ag[u].done /\ ag[u].name # NoName}}
    IN  deps = <<>>
        \/ \A k \in 1..Len(deps) :
              IF IsDigit(deps[k]) THEN ToInt(deps[k]) \in done_indices
              ELSE deps[k] \in done_names

\* wait_for_status that accepts any existing file
wait_for_status_any(file, expected, late) ==
    IF late THEN "timeout"
    ELSE IF file.exists THEN "return"
    ELSE "sleep"

\* One iteration of wait_for_status' loop: the deadline check, the read of the
\* first line, and either the return or the five second sleep.
wait_for_status(file, expected, late) ==
    IF late THEN "timeout"
    ELSE IF file.exists /\ Strip(file.first_line) = expected THEN "return"
    ELSE "sleep"

\* The thread id the runtime gives its next session.
NextThread(r) == Cardinality(DOMAIN r) + 1

\* The runtime's side of thread/start followed by turn/start on the new thread.
RuntimeStartThread(r) ==
    [t \in DOMAIN r \cup {NextThread(r)} |->
        IF t \in DOMAIN r THEN r[t] ELSE [inflight |-> 1, said |-> FALSE, streamed |-> 0]]

\* The runtime's side of turn/start on an existing thread.
RuntimeStartTurn(r, t) == [r EXCEPT ![t].inflight = @ + 1]

\* The agent record start_agent stores under the new thread id.
NewAgent(item, t) ==
    [index |-> item.index, name |-> parse_agent_name(item.prompt), thread_id |-> t,
     done |-> FALSE, queued_prompts |-> <<>>, last_message |-> None,
     review_thread |-> 0, history |-> <<>>, agent_buffer |-> <<>>,
     summary_buffer |-> <<>>]

\* start_agent after its gate: thread/start, turn/start, agents[thread_id] = {...}.
\* s is the state the scan works on.
start_agent(s, item) ==
    LET t == NextThread(s.rt) IN
    [s EXCEPT
        !.agents = [u \in DOMAIN s.agents \cup {t} |->
                       IF u = t THEN NewAgent(item, t) ELSE s.agents[u]],
        !.rt = RuntimeStartThread(s.rt),
        !.turn_log = Append(@, [thread_id |-> t, prompt |-> InitialPrompt])]

\* What the first iteration of a spec's wait_for_status records.
WaitBegin(s, item, r) ==
    [s EXCEPT !.wait_hist[item.index] =
        [began |-> TRUE,
         ready_at_begin |-> (s.file.exists
                             /\ Strip(s.file.first_line) = item.wait.expected),
         reads |-> IF r = "timeout" THEN 0 ELSE 1,
         sleeps |-> IF r = "sleep" THEN 1 ELSE 0,
         matched |-> (r # "timeout" /\ s.file.exists
                       /\ Strip(s.file.first_line) = item.wait.expected),
         returned |-> (r = "return")]]

\* The tail of start_ready_agents without the specs it had set aside
ScanFinishDropping(s) == [s EXCEPT !.remaining = <<>>, !.out = "done"]

\* The tail of start_ready_agents: what is left of pending_prompts goes behind
\* remaining, and remaining becomes pending_prompts.
ScanFinish(s) ==
    [s EXCEPT !.pending_prompts = s.remaining \o s.pending_prompts,
              !.remaining = <<>>, !.out = "done"]

\* start_ready_agents that stops scanning at the first spec it cannot start
RECURSIVE ScanLoopHeadOfLine(_)
ScanLoopHeadOfLine(s) ==
    IF s.pending_prompts # <<>> /\ NonDone(s.agents) < s.cap
       /\ deps_satisfied(Head(s.pending_prompts).deps, s.agents)
    THEN ScanLoopHeadOfLine(
            start_agent([s EXCEPT !.pending_prompts = Tail(@)], Head(s.pending_prompts)))
    ELSE ScanFinish(s)

\* start_ready_agents that starts one spec at most in a call
ScanLoopOneStart(s) ==
    IF s.pending_prompts # <<>> /\ NonDone(s.agents) < s.cap
    THEN IF deps_satisfied(Head(s.pending_prompts).deps, s.agents)
         THEN ScanFinish(start_agent([s EXCEPT !.pending_prompts = Tail(@)],
                                     Head(s.pending_prompts)))
         ELSE ScanFinish([s EXCEPT !.pending_prompts = Tail(@),
                                   !.remaining = Append(@, Head(s.pending_prompts))])
    ELSE ScanFinish(s)

\* The first loop of start_ready_agents, from its condition on (ScanLoop), and
\* from the end of an iteration on (ScanAfter: `if not pending_prompts: break`).
\* It runs until the loop ends or a start_agent has to sleep in wait_for_status.
RECURSIVE ScanLoop(_), ScanAfter(_)
ScanLoop(s) ==
    IF s.pending_prompts # <<>> /\ NonDone(s.agents) < s.cap
    THEN LET item == Head(s.pending_prompts)
             s1 == [s EXCEPT !.pending_prompts = Tail(@)]
             r == wait_for_status(s.file, item.wait.expected, s.late)
         IN  IF deps_satisfied(item.deps, s1.agents)
             THEN IF item.wait = NoWait THEN ScanAfter(start_agent(s1, item))
                  ELSE IF r = "return"
                       THEN ScanAfter(start_agent(WaitBegin(s1, item, r), item))
                  ELSE IF r = "sleep"
                       THEN [WaitBegin(s1, item, r) EXCEPT !.out = "wait", !.waiting = item]
                  ELSE [WaitBegin(s1, item, r) EXCEPT !.out = "timeout", !.waiting = item]
             ELSE ScanAfter([s1 EXCEPT !.remaining = Append(@, item)])
    ELSE ScanFinish(s)

ScanAfter(s) == IF s.pending_prompts = <<>> THEN ScanFinish(s) ELSE ScanLoop(s)

\* The state the scan works on, read from the variables.
ScanState ==
    [pending_prompts |-> pending_prompts, remaining |-> remaining, waiting |-> waiting,
     agents |-> agents, rt |-> rt, turn_log |-> turn_log, wait_hist |-> wait_hist,
     file |-> files["/tmp/x"], late |-> (RunsTimeout(args) /\ expired),
     cap |-> max_parallel, out |-> "scan"]

\* Writes the scan's result back to the variables it works on.
ScanStore(s) ==
    /\ pending_prompts' = s.pending_prompts
    /\ remaining' = s.remaining
    /\ waiting' = s.waiting
    /\ agents' = s.agents
    /\ rt' = s.rt
    /\ turn_log' = s.turn_log
    /\ wait_hist' = s.wait_hist

(***************************************************************************)
(* Control loop: run_plain and run_curses.                                 *)
(***************************************************************************)
\* The loop's exit condition, the second test of every iteration.  This
\* variant forgets the tracked review sessions.
RunFinishedNoReviews ==
    /\ pending_prompts = <<>>
    /\ \A t \in DOMAIN agents : agents[t].done

RunFinished ==
    /\ pending_prompts = <<>>
    /\ \A t \in DOMAIN agents : agents[t].done
    /\ DOMAIN pending_reviews = {}

\* The order of the steps of run_plain's iteration, taken for both front ends
AfterStepAsPlain(step) ==
    CASE step = "sched" -> "drain" [] step = "drain" -> "approval"
      [] step = "approval" -> "input" [] step = "input" -> "event"
      [] step = "event" -> "tick"

\* The order of the steps of one iteration, per front end.
AfterStep(step) ==
    IF args.frontend = "plain"
    THEN CASE step = "sched" -> "drain" [] step = "drain" -> "approval"
           [] step = "approval" -> "input" [] step = "input" -> "event"
           [] step = "event" -> "tick"
    ELSE CASE step = "sched" -> "drain" [] step = "drain" -> "event"
           [] step = "event" -> "input" [] step = "input" -> "tick"

\* Top of `while True`: the deadline check, then the exit test.
TickStart ==
    /\ pc = "tick"
    /\ pc' = IF RunsTimeout(args) /\ expired THEN "timeout"
             ELSE IF RunFinished THEN "ended"
             ELSE "sched"
    /\ UNCHANGED <<args, lab, server, reviewed, pending_prompts, remaining, waiting, agents, pending_reviews,
                   events, requests, approval_queue, approvals_by_thread, rt,
                   rt_next_req, files, expired, turn_log, queued_log, completed,
                   responded, outputs, wait_hist>>

\* start_ready_agents(): the call before the loop (pc = "boot") and the one at
\* the top of every iteration (pc = "sched").
StartReadyAgents ==
    /\ pc \in {"boot", "sched"}
    /\ LET s == ScanLoop(ScanState) IN
        /\ ScanStore(s)
        /\ pc' = CASE s.out = "timeout" -> "timeout"
                   [] s.out = "wait" -> IF pc = "boot" THEN "boot_wait" ELSE "sched_wait"
                   [] OTHER -> IF pc = "boot" THEN "tick" ELSE AfterStep("sched")
    /\ UNCHANGED <<args, lab, server, reviewed, pending_reviews, events, requests, approval_queue,
                   approvals_by_thread, rt_next_req, files, expired, queued_log,
                   completed, responded, outputs>>

\* A further iteration of wait_for_status, after its sleep; when it returns,
\* start_agent goes on and the scan resumes behind it.  The history counts the
\* first MaxSleeps sleeps of a wait; the wait itself goes on sleeping.
WaitPoll ==
    /\ pc \in {"boot_wait", "sched_wait"}
    /\ LET r == wait_for_status(files[waiting.wait.path], waiting.wait.expected,
                                RunsTimeout(args) /\ expired)
           file == files[waiting.wait.path]
           h == wait_hist[waiting.index]
           counted == r = "sleep" => h.sleeps < MaxSleeps
           s0 == [ScanState EXCEPT
                    !.waiting = IF r = "return" THEN NoItem ELSE waiting,
                    !.wait_hist[waiting.index] =
                        [h EXCEPT !.reads = IF r = "timeout" \/ ~counted THEN @ ELSE @ + 1,
                                  !.sleeps = IF r = "sleep" /\ counted THEN @ + 1 ELSE @,
                                  !.matched = @ \/ (r # "timeout" /\ file.exists
                                                    /\ Strip(file.first_line)
                                                       = waiting.wait.expected),
                                  !.returned = (r = "return")]]
           s == IF r = "return" THEN ScanAfter(start_agent(s0, waiting)) ELSE s0
       IN
        /\ ScanStore(s)
        /\ pc' = CASE r = "timeout" \/ s.out = "timeout" -> "timeout"
                   [] r = "sleep" -> pc
                   [] s.out = "wait" -> pc
                   [] OTHER -> IF pc = "boot_wait" THEN "tick" ELSE AfterStep("sched")
    /\ UNCHANGED <<args, lab, server, reviewed, pending_reviews, events, requests, approval_queue,
                   approvals_by_thread, rt_next_req, files, expired, queued_log,
                   completed, responded, outputs>>

(***************************************************************************)
(* Agent state machine.                                                    *)
(***************************************************************************)
\* queue_agent_prompt that puts the prompt at the front of the deque
queue_agent_prompt_front(agent, prompt) ==
    [agent EXCEPT !.queued_prompts = <<prompt>> \o @]

\* queue_agent_prompt: agent["queued_prompts"].append(prompt)
queue_agent_prompt(agent, prompt) ==
    [agent EXCEPT !.queued_prompts = Append(@, prompt)]

\* normalize_summary_text: the while loop from index i on (text[i - 1] in the
\* code, which counts from 0); the result is what out holds at the end.
RECURSIVE NormalizeLoop(_, _)
NormalizeLoop(text, i) ==
    IF i > Len(text) THEN <<>>
    ELSE LET ch == text[i]
             \* j: behind the blanks and tabs that follow the line break
             j == CHOOSE j \in (i + 1)..(Len(text) + 1) :
                     /\ \A k \in (i + 1)..(j - 1) : text[k] \in {" ", "\t"}
                     /\ j <= Len(text) => text[j] \notin {" ", "\t"}
         IN  IF ch = "\r" THEN NormalizeLoop(text, i + 1)
             ELSE IF ch = "\n"
             THEN IF i + 1 <= Len(text) /\ text[i + 1] = "\n"
                  THEN <<"\n">> \o NormalizeLoop(text, i + 2)
                  ELSE IF j <= Len(text) /\ text[j] \in {"-", "*", "+", "#"}
                  THEN <<"\n">> \o NormalizeLoop(text, i + 1)
                  ELSE IF j <= Len(text) /\ text[j] \in Digits
                          /\ j + 1 <= Len(text) /\ text[j + 1] = "."
                  THEN <<"\n">> \o NormalizeLoop(text, i + 1)
                  ELSE <<" ">> \o NormalizeLoop(text, i + 1)
             ELSE <<ch>> \o NormalizeLoop(text, i + 1)

normalize_summary_text(text) == NormalizeLoop(text, 1)

\* normalize_agent_text
normalize_agent_text(text) == normalize_summary_text(text)

\* normalized.split("\n"): the pieces of text between line breaks, cur being
\* the piece under construction
RECURSIVE SplitLines(_, _)
SplitLines(text, cur) ==
    IF text = <<>> THEN <<cur>>
    ELSE IF Head(text) = "\n" THEN <<cur>> \o SplitLines(Tail(text), <<>>)
    ELSE SplitLines(Tail(text), Append(cur, Head(text)))

\* [f"{tag}: {line.strip()}" for line in pieces if line.strip()]
RECURSIVE TaggedLines(_, _)
TaggedLines(tag, pieces) ==
    IF pieces = <<>> THEN <<>>
    ELSE IF Strip(Head(pieces)) = <<>> THEN TaggedLines(tag, Tail(pieces))
    ELSE <<[tag |-> tag, line |-> Strip(Head(pieces))]>>
         \o TaggedLines(tag, Tail(pieces))

\* What a flush of buffer hands to record_recent, in order.
FlushedLines(tag, buffer) ==
    TaggedLines(tag, SplitLines(normalize_summary_text(buffer), <<>>))

\* record_recent, the history's side, for the entries the model carries:
\* agent: <line>, summary: <line> and turn <status>
record_recent(agent, entry) == [agent EXCEPT !.history = Append(@, entry)]

\* record_agent_delta / record_summary_delta
record_agent_delta(agent, delta) == [agent EXCEPT !.agent_buffer = @ \o delta]
record_summary_delta(agent, delta) == [agent EXCEPT !.summary_buffer = @ \o delta]

\* A flush that leaves the emitted text in the accumulator
flush_agent_buffer_keep(agent) ==
    [agent EXCEPT !.history = @ \o FlushedLines("agent", agent.agent_buffer)]

\* flush_agent_buffer
flush_agent_buffer(agent) ==
    IF agent.agent_buffer # <<>>
    THEN [agent EXCEPT !.history = @ \o FlushedLines("agent", agent.agent_buffer),
                       !.agent_buffer = <<>>]
    ELSE agent

\* flush_summary_buffer
flush_summary_buffer(agent) ==
    IF agent.summary_buffer # <<>>
    THEN [agent EXCEPT !.history = @ \o FlushedLines("summary", agent.summary_buffer),
                       !.summary_buffer = <<>>]
    ELSE agent

\* The history entry of record_recent(agent, f"turn {status}")
TurnLine == [tag |-> "turn", line |-> <<>>]

\* The turn/completed branch of process_event up to the turn line: done = True,
\* flush_agent_buffer, flush_summary_buffer, record_recent(turn <status>)
TurnCompletedSummaryFirst(agent) ==
    record_recent(flush_agent_buffer(flush_summary_buffer(
        [agent EXCEPT !.done = TRUE])), TurnLine)

TurnCompletedRecorded(agent) ==
    record_recent(flush_summary_buffer(flush_agent_buffer(
        [agent EXCEPT !.done = TRUE])), TurnLine)

\* The item/completed branch of process_event for an agentMessage item that
\* flushes the summary accumulator as well
MessageCompletedFlushAll(agent) ==
    [flush_summary_buffer(flush_agent_buffer(agent)) EXCEPT !.last_message = "msg"]

\* The item/completed branch of process_event for an agentMessage item
MessageCompleted(agent) ==
    [flush_agent_buffer(agent) EXCEPT !.last_message = "msg"]

\* start_agent_prompt, the agent's side: done = False (last_message is kept)
start_agent_prompt(agent) == [agent EXCEPT !.done = FALSE]

\* The turn/completed branch of process_event that leaves the dequeued prompt
\* in the queue
TurnCompletedAgentKeep(agent) ==
    IF agent.queued_prompts # <<>>
    THEN start_agent_prompt(TurnCompletedRecorded(agent))
    ELSE TurnCompletedRecorded(agent)

\* The turn/completed branch of process_event that starts no queued prompt
TurnCompletedAgentIdle(agent) == TurnCompletedRecorded(agent)

\* The turn/completed branch of process_event, the agent's side: done = True,
\* then the oldest queued prompt, if any, is popped and started.
TurnCompletedAgent(agent) ==
    IF agent.queued_prompts # <<>>
    THEN start_agent_prompt([TurnCompletedRecorded(agent) EXCEPT
                                !.queued_prompts = Tail(@)])
    ELSE TurnCompletedRecorded(agent)

\* The automatic review that takes the reviewed agent's session for its own
ReviewSpawnedRethread(agent, review_thread) ==
    [agent EXCEPT !.thread_id = review_thread]

\* The automatic review of process_event, the agent's side:
\* agent["review_thread"] = review_thread
ReviewSpawned(agent, review_thread) ==
    [agent EXCEPT !.review_thread = review_thread]

\* pending_reviews when the spawn of a review is not recorded
ReviewsAfterUnrecorded(event) ==
    LET t == event.thread_id IN
    IF event.method = "turn/completed" /\ t \notin DOMAIN agents
       /\ t \in DOMAIN pending_reviews
    THEN [u \in DOMAIN pending_reviews \ {t} |-> pending_reviews[u]]
    ELSE pending_reviews

\* pending_reviews when the turn/completed of a session that is neither an
\* agent's nor a tracked review's is taken for the start of a review
ReviewsAfterStray(event) ==
    LET t == event.thread_id
        r == NextThread(rt)
    IN  IF event.method = "turn/completed" /\ t \in DOMAIN agents
        THEN IF args.review /\ agents[t].last_message # None
             THEN [u \in DOMAIN pending_reviews \cup {r} |->
                      IF u = r THEN agents[t].index ELSE pending_reviews[u]]
             ELSE pending_reviews
        ELSE IF event.method = "turn/completed" /\ t \in DOMAIN pending_reviews
        THEN [u \in DOMAIN pending_reviews \ {t} |-> pending_reviews[u]]
        ELSE IF event.method = "turn/completed"
        THEN [u \in DOMAIN pending_reviews \cup {t} |->
                 IF u = t THEN 0 ELSE pending_reviews[u]]
        ELSE pending_reviews

\* pending_reviews after an event was processed.
ReviewsAfter(event) ==
    LET t == event.thread_id
        r == NextThread(rt)
    IN  IF event.method = "turn/completed" /\ t \in DOMAIN agents
        THEN IF args.review /\ agents[t].last_message # None
             THEN [u \in DOMAIN pending_reviews \cup {r} |->
                      IF u = r THEN agents[t].index ELSE pending_reviews[u]]
             ELSE pending_reviews
        ELSE IF event.method = "turn/completed" /\ t \in DOMAIN pending_reviews
        THEN [u \in DOMAIN pending_reviews \ {t} |-> pending_reviews[u]]
        ELSE pending_reviews

\* process_event(event, ...) for the events the model carries: turn/completed,
\* item/completed of an agentMessage item, and the deltas of agent text and of
\* the reasoning summary.
process_event(event) ==
    LET t == event.thread_id
        known == t \in DOMAIN agents
        dequeues == known /\ event.method = "turn/completed"
                    /\ agents[t].queued_prompts # <<>>
        reviews == known /\ event.method = "turn/completed"
                   /\ args.review /\ agents[t].last_message # None
        rt1 == IF dequeues THEN RuntimeStartTurn(rt, t) ELSE rt
    IN
    /\ agents' =
          IF reviews
          THEN [agents EXCEPT
                   ![t] = ReviewSpawned(TurnCompletedAgent(@), NextThread(rt))]
          ELSE IF known /\ event.method = "turn/completed"
          THEN [agents EXCEPT ![t] = TurnCompletedAgent(@)]
          ELSE IF known /\ event.method = "item/completed"
          THEN [agents EXCEPT ![t] = MessageCompleted(@)]
          ELSE IF known /\ event.method = "item/agentMessage/delta"
                  /\ event.delta # <<>>
          THEN [agents EXCEPT ![t] = record_agent_delta(@, event.delta)]
          ELSE IF known /\ event.method = "item/reasoning/summaryTextDelta"
                  /\ event.delta # <<>>
          THEN [agents EXCEPT ![t] = record_summary_delta(@, event.delta)]
          ELSE agents
    /\ completed' = IF known /\ event.method = "turn/completed"
                    THEN completed \cup {agents[t].index} ELSE completed
    /\ turn_log' =
          LET l1 == IF dequeues
                    THEN Append(turn_log, [thread_id |-> t,
                                           prompt |-> Head(agents[t].queued_prompts)])
                    ELSE turn_log
          IN  IF reviews
              THEN Append(l1, [thread_id |-> NextThread(rt), prompt |-> InitialPrompt])
              ELSE l1
    /\ rt' = IF reviews THEN RuntimeStartThread(rt1) ELSE rt1
    /\ pending_reviews' = ReviewsAfter(event)

\* The event step of an iteration: next_event(), then process_event when there
\* was one.
ProcessEvent ==
    /\ pc = "event"
    /\ events # <<>>
    /\ "item" \notin DOMAIN Head(events)
    /\ process_event(Head(events))
    /\ events' = Tail(events)
    /\ pc' = AfterStep("event")
    /\ UNCHANGED <<args, lab, server, reviewed, pending_prompts, remaining, waiting, requests, approval_queue,
                   approvals_by_thread, rt_next_req, files, expired, queued_log,
                   responded, outputs, wait_hist>>

\* The event step when next_event() raised queue.Empty.
NoEvent ==
    /\ pc = "event"
    /\ events = <<>>
    /\ pc' = AfterStep("event")
    /\ UNCHANGED <<args, lab, server, reviewed, pending_prompts, remaining, waiting, agents, pending_reviews,
                   events, requests, approval_queue, approvals_by_thread, rt,
                   rt_next_req, files, expired, turn_log, queued_log, completed,
                   responded, outputs, wait_hist>>

(***************************************************************************)
(* The runtime and the rest of the environment.                            *)
(***************************************************************************)
\* The loop reads what the environment produces at fixed places only: the event
\* queue in its event step, the request queue in its drain step, the clock at
\* the top of an iteration and in wait_for_status, the gate file in
\* wait_for_status.  What the environment produces earlier in an iteration is
\* seen there exactly as if it were produced right before the read, so the
\* environment's actions are taken right before the read.
BeforeEventPoll == pc = "event"
BeforeDrain == pc = "drain"
BeforeClockRead == pc \in {"tick", "boot", "sched", "boot_wait", "sched_wait"}
BeforeFileRead == pc \in {"boot", "sched", "boot_wait", "sched_wait"}

\* The runtime finishes a turn and the reader queues its turn/completed.
RuntimeCompletes(t) ==
    /\ BeforeEventPoll
    /\ rt[t].inflight > 0
    /\ Len(events) < MaxEvents
    /\ rt' = [rt EXCEPT ![t].inflight = @ - 1]
    /\ events' = Append(events, [method |-> "turn/completed", thread_id |-> t])
    /\ UNCHANGED <<args, lab, server, reviewed, pending_prompts, remaining, waiting, agents, pending_reviews,
                   requests, approval_queue, approvals_by_thread, rt_next_req, files,
                   expired, pc, turn_log, queued_log, completed, responded, outputs,
                   wait_hist>>

\* The text pieces the runtime streams
Deltas == {<<>>, <<"a", " ">>, <<"\n">>, <<"\n", "-">>}
DeltaMethods == {"item/agentMessage/delta", "item/reasoning/summaryTextDelta"}

\* The runtime streams a piece of agent text or of the reasoning summary of a
\* running turn; the reader queues the event.
RuntimeDelta(t, method, delta) ==
    /\ BeforeEventPoll
    /\ rt[t].inflight > 0
    /\ rt[t].streamed < MaxDeltas
    /\ Len(events) < MaxEvents
    /\ rt' = [rt EXCEPT ![t].streamed = @ + 1]
    /\ events' = Append(events, [method |-> method, thread_id |-> t, delta |-> delta])
    /\ UNCHANGED <<args, lab, server, reviewed, pending_prompts, remaining, waiting, agents, pending_reviews,
                   requests, approval_queue, approvals_by_thread, rt_next_req, files,
                   expired, pc, turn_log, queued_log, completed, responded, outputs,
                   wait_hist>>

\* The runtime finishes an agentMessage item of a running turn.
RuntimeMessage(t) ==
    /\ BeforeEventPoll
    /\ rt[t].inflight > 0
    /\ ~rt[t].said
    /\ Len(events) < MaxEvents
    /\ rt' = [rt EXCEPT ![t].said = TRUE]
    /\ events' = Append(events, [method |-> "item/completed", thread_id |-> t])
    /\ UNCHANGED <<args, lab, server, reviewed, pending_prompts, remaining, waiting, agents, pending_reviews,
                   requests, approval_queue, approvals_by_thread, rt_next_req, files,
                   expired, pc, turn_log, queued_log, completed, responded, outputs,
                   wait_hist>>

\* The deadline passes.
TimePasses ==
    /\ BeforeClockRead
    /\ RunsTimeout(args)
    /\ ~expired
    /\ expired' = TRUE
    /\ UNCHANGED <<args, lab, server, reviewed, pending_prompts, remaining, waiting, agents, pending_reviews,
                   events, requests, approval_queue, approvals_by_thread, rt,
                   rt_next_req, files, pc, turn_log, queued_log, completed, responded,
                   outputs, wait_hist>>

(***************************************************************************)
(* Operator commands: handle_user_command.                                 *)
(***************************************************************************)
NoThread == 0       \* resolve_agent's (None, None); as a thread id, "unknown"
NoKey == <<>>       \* no agent reference in the command
NoChoice == ""      \* no choice in the command

Min(S) == CHOOSE x \in S : \A y \in S : x <= y

\* resolve_agent: the index match first, then the name match, each the first in
\* the dict's order (the order in which the agents were started).
resolve_agent(ag, key) ==
    LET k == normalize_agent_key(key)
        by_index == {t \in DOMAIN ag : IsDigit(k) /\ ag[t].index = ToInt(k)}
        by_name == {t \in DOMAIN ag : ag[t].name # NoName
                                      /\ normalize_agent_key(ag[t].name) = k}
    IN  IF by_index # {} THEN Min(by_index)
        ELSE IF by_name # {} THEN Min(by_name)
        ELSE NoThread

\* What every command leaves alone besides the variables it names.
CommandFrame ==
    UNCHANGED <<args, lab, server, reviewed, pending_prompts, remaining, waiting, pending_reviews, events,
                requests, rt_next_req, files, expired, completed, wait_hist>>

Report(msg) == outputs' = [n |-> outputs.n + 1, last |-> msg]

\* `<agentRef> <prompt>`: the text of the prompt is the number of the command.
OperatorPrompt(key) ==
    LET t == resolve_agent(agents, key)
        prompt == outputs.n + 1
    IN
    /\ pc = "input"
    /\ outputs.n < MaxCmds
    /\ pc' = AfterStep("input")
    /\ IF t = NoThread
       THEN /\ Report("Unknown agent")
            /\ UNCHANGED <<agents, rt, turn_log, queued_log>>
       ELSE IF agents[t].done
       THEN /\ agents' = [agents EXCEPT ![t] = start_agent_prompt(@)]
            /\ rt' = RuntimeStartTurn(rt, t)
            /\ turn_log' = Append(turn_log, [thread_id |-> t, prompt |-> prompt])
            /\ Report("")
            /\ UNCHANGED queued_log
       ELSE /\ agents' = [agents EXCEPT ![t] = queue_agent_prompt(@, prompt)]
            /\ queued_log' = Append(queued_log, [thread_id |-> t, prompt |-> prompt])
            /\ Report("")
            /\ UNCHANGED <<rt, turn_log>>
    /\ UNCHANGED <<approval_queue, approvals_by_thread, responded>>
    /\ CommandFrame

\* What a turn/cancel request comes to: a response without an "error" key, a
\* response with one, or no response in time (TimeoutError).
CancelResponses == {"ok", "error", "timeout"}

\* The prompt `Stop: <reason>` of the n-th command.  Prompts are told apart by
\* the number of the command that typed them; a Stop prompt carries it negated.
StopPrompt(n) == 0 - n

\* try_cancel_turn that takes every response for an acceptance
try_cancel_turn_any_response(resp) == resp # "timeout"

\* try_cancel_turn: False on an error response and on any exception
try_cancel_turn(resp) == resp = "ok"

\* `<agentRef> stop [reason]`; resp is what turn/cancel comes to, if it is sent.
OperatorStop(key, resp) ==
    LET t == resolve_agent(agents, key)
        prompt == StopPrompt(outputs.n + 1)
    IN
    /\ pc = "input"
    /\ outputs.n < MaxCmds
    /\ pc' = AfterStep("input")
    /\ IF t = NoThread
       THEN /\ Report("Unknown agent")
            /\ UNCHANGED <<agents, rt, turn_log, queued_log>>
       ELSE IF agents[t].done
       THEN /\ agents' = [agents EXCEPT ![t] = start_agent_prompt(@)]
            /\ rt' = RuntimeStartTurn(rt, t)
            /\ turn_log' = Append(turn_log, [thread_id |-> t, prompt |-> prompt])
            /\ Report("")
            /\ UNCHANGED queued_log
       ELSE IF try_cancel_turn(resp)
       THEN /\ Report("turn cancelled")
            /\ UNCHANGED <<agents, rt, turn_log, queued_log>>
       ELSE /\ agents' = [agents EXCEPT ![t] = queue_agent_prompt(@, prompt)]
            /\ queued_log' = Append(queued_log, [thread_id |-> t, prompt |-> prompt])
            /\ Report("")
            /\ UNCHANGED <<rt, turn_log>>
    /\ UNCHANGED <<approval_queue, approvals_by_thread, responded>>
    /\ CommandFrame

\* `review <agentRef> [target] [--detached|--inline]`: review/start is sent for
\* the thread the reference resolves to (for the reference itself when it
\* resolves to none, which the runtime knows no session of), and whatever the
\* response, `review started` is reported.  The runtime runs the review as a
\* turn of a new session (detached) or of the agent's own session (inline).
\* Nothing but the report is recorded: handle_user_command is not given
\* pending_reviews.
OperatorReview(key, detached) ==
    LET t == resolve_agent(agents, key) IN
    /\ pc = "input"
    /\ outputs.n < MaxCmds
    /\ pc' = AfterStep("input")
    /\ rt' = IF t = NoThread THEN rt
             ELSE IF detached THEN RuntimeStartThread(rt)
             ELSE RuntimeStartTurn(rt, t)
    /\ Report("review started")
    /\ UNCHANGED <<agents, turn_log, queued_log, approval_queue,
                   approvals_by_thread, responded>>
    /\ CommandFrame

\* `quit` / `exit`: SystemExit(0).  run_curses keeps these lines to itself.
OperatorQuit ==
    /\ pc = "input"
    /\ args.frontend = "plain"
    /\ pc' = "quit"
    /\ UNCHANGED <<agents, rt, turn_log, queued_log, approval_queue,
                   approvals_by_thread, responded, outputs>>
    /\ CommandFrame

\* The input step when there is no line to dispatch.
NoInput ==
    /\ pc = "input"
    /\ pc' = AfterStep("input")
    /\ UNCHANGED <<agents, rt, turn_log, queued_log, approval_queue,
                   approvals_by_thread, responded, outputs>>
    /\ CommandFrame

(***************************************************************************)
(* Approval workflow.                                                      *)
(***************************************************************************)
NoPayload == <<>>   \* get_decision_payload returned None

\* get_decision_payload that takes execCommandApproval alone for legacy
get_decision_payload_one_legacy(method, choice, amendment) ==
    LET is_legacy == method = "execCommandApproval" IN
    IF choice = "a"
    THEN IF is_legacy THEN <<"decision", "approved">> ELSE <<"decision", "accept">>
    ELSE IF choice = "s"
    THEN IF is_legacy THEN <<"decision", "approved_for_session">>
                      ELSE <<"decision", "acceptForSession">>
    ELSE IF choice = "p" /\ amendment \notin {None, ""}
    THEN IF is_legacy
         THEN <<"decision", "approved_execpolicy_amendment",
                "proposed_execpolicy_amendment", amendment>>
         ELSE <<"decision", "acceptWithExecpolicyAmendment",
                "execpolicyAmendment", amendment>>
    ELSE IF choice = "d"
    THEN IF is_legacy THEN <<"decision", "denied">> ELSE <<"decision", "decline">>
    ELSE IF choice = "c"
    THEN IF is_legacy THEN <<"decision", "abort">> ELSE <<"decision", "cancel">>
    ELSE NoPayload

\* get_decision_payload; a payload is the path through the JSON object it
\* returns, down to the string at its leaf.  `and amendment` is Python's truth
\* test: None and the empty value fail it.
\* returns, down to the string at its leaf.
get_decision_payload(method, choice, amendment) ==
    LET is_legacy == method \in {"applyPatchApproval", "execCommandApproval"} IN
    IF choice = "a"
    THEN IF is_legacy THEN <<"decision", "approved">> ELSE <<"decision", "accept">>
    ELSE IF choice = "s"
    THEN IF is_legacy THEN <<"decision", "approved_for_session">>
                      ELSE <<"decision", "acceptForSession">>
    ELSE IF choice = "p" /\ amendment \notin {None, ""}
    THEN IF is_legacy
         THEN <<"decision", "approved_execpolicy_amendment",
                "proposed_execpolicy_amendment", amendment>>
         ELSE <<"decision", "acceptWithExecpolicyAmendment",
                "execpolicyAmendment", amendment>>
    ELSE IF choice = "d"
    THEN IF is_legacy THEN <<"decision", "denied">> ELSE <<"decision", "decline">>
    ELSE IF choice = "c"
    THEN IF is_legacy THEN <<"decision", "abort">> ELSE <<"decision", "cancel">>
    ELSE NoPayload

\* approve_request: the responses written to the server afterwards
approve_request(log, entry, choice) ==
    LET decision == get_decision_payload(entry.method, choice, entry.amendment) IN
    IF decision = NoPayload THEN log
    ELSE Append(log, [req_id |-> entry.req_id, decision |-> decision])

\* approvals_by_thread.get(thread_id) or deque()
ThreadQueue(abt, t) == IF t \in DOMAIN abt THEN abt[t] ELSE <<>>

\* approvals_by_thread[thread_id] = thread_queue
SetThreadQueue(abt, t, q) ==
    [u \in DOMAIN abt \cup {t} |-> IF u = t THEN q ELSE abt[u]]

InSeq(e, q) == \E k \in 1..Len(q) : q[k] = e

\* deque.remove(e): the first occurrence goes
RECURSIVE RemoveFirst(_, _)
RemoveFirst(q, e) ==
    IF q = <<>> THEN <<>>
    ELSE IF Head(q) = e THEN Tail(q)
    ELSE <<Head(q)>> \o RemoveFirst(Tail(q), e)

ApprovalFrame ==
    UNCHANGED <<agents, rt, turn_log, queued_log>>

\* `approve [agentRef] [choice]` as line.split() reads it: target and choice
\* are what the branches on len(parts) leave in them.
OperatorApprove(target, choice) ==
    LET t == resolve_agent(agents, target)
        thread_queue == ThreadQueue(approvals_by_thread, t)
        entry == IF target # NoKey THEN Head(thread_queue) ELSE Head(approval_queue)
        other_queue == ThreadQueue(approvals_by_thread, entry.thread_id)
        log == approve_request(responded, entry, choice)
    IN
    /\ pc = "input"
    /\ outputs.n < MaxCmds
    /\ pc' = AfterStep("input")
    /\ IF args.frontend = "plain"
       THEN /\ Report("No approval queue available.")
            /\ UNCHANGED <<approval_queue, approvals_by_thread, responded>>
       ELSE IF choice = NoChoice
       THEN /\ Report("Approval requires a choice: a/s/p/d/c.")
            /\ UNCHANGED <<approval_queue, approvals_by_thread, responded>>
       ELSE IF target # NoKey /\ t = NoThread
       THEN /\ Report("Unknown agent")
            /\ UNCHANGED <<approval_queue, approvals_by_thread, responded>>
       ELSE IF target # NoKey /\ thread_queue = <<>>
       THEN /\ Report("No pending approvals for agent")
            /\ UNCHANGED <<approval_queue, approvals_by_thread, responded>>
       ELSE IF target # NoKey
       THEN /\ approvals_by_thread' =
                  SetThreadQueue(approvals_by_thread, t, Tail(thread_queue))
            /\ responded' = log
            /\ Report(IF log = responded THEN "Invalid approval choice." ELSE "approval")
            /\ UNCHANGED approval_queue
       ELSE IF approval_queue = <<>>
       THEN /\ Report("No pending approvals.")
            /\ UNCHANGED <<approval_queue, approvals_by_thread, responded>>
       ELSE /\ approval_queue' = Tail(approval_queue)
            /\ approvals_by_thread' =
                  IF InSeq(entry, other_queue)
                  THEN SetThreadQueue(approvals_by_thread, entry.thread_id,
                                      RemoveFirst(other_queue, entry))
                  ELSE approvals_by_thread
            /\ responded' = log
            /\ Report(IF log = responded THEN "Invalid approval choice." ELSE "approval")
    /\ ApprovalFrame
    /\ CommandFrame

\* `<agentRef> <a|s|p|d|c>`
OperatorChoice(key, choice) ==
    LET t == resolve_agent(agents, key)
        thread_queue == ThreadQueue(approvals_by_thread, t)
        entry == Head(thread_queue)
        log == approve_request(responded, entry, choice)
    IN
    /\ pc = "input"
    /\ outputs.n < MaxCmds
    /\ choice \in {"a", "s", "p", "d", "c"}
    /\ pc' = AfterStep("input")
    /\ IF t = NoThread
       THEN /\ Report("Unknown agent")
            /\ UNCHANGED <<approval_queue, approvals_by_thread, responded>>
       ELSE IF args.frontend = "plain"
       THEN /\ Report("No approval queue available.")
            /\ UNCHANGED <<approval_queue, approvals_by_thread, responded>>
       ELSE IF thread_queue = <<>>
       THEN /\ Report("No pending approvals for agent")
            /\ UNCHANGED <<approval_queue, approvals_by_thread, responded>>
       ELSE /\ approvals_by_thread' =
                  SetThreadQueue(approvals_by_thread, t, Tail(thread_queue))
            /\ approval_queue' = IF InSeq(entry, approval_queue)
                                 THEN RemoveFirst(approval_queue, entry)
                                 ELSE approval_queue
            /\ responded' = log
            /\ Report(IF log = responded THEN "Invalid approval choice." ELSE "approval")
    /\ ApprovalFrame
    /\ CommandFrame

\* The approval entry run_curses builds from a server-initiated request.
Entry(req) ==
    [req_id |-> req.id, method |-> req.method, thread_id |-> req.thread_id,
     amendment |-> req.amendment]

\* The drain loop of run_curses over the requests q: every entry goes to the
\* global FIFO and to the FIFO of its thread.
RECURSIVE DrainQueue(_, _), DrainByThread(_, _)
DrainQueue(aq, q) ==
    IF q = <<>> THEN aq ELSE DrainQueue(Append(aq, Entry(Head(q))), Tail(q))

DrainByThread(abt, q) ==
    IF q = <<>> THEN abt
    ELSE DrainByThread(
            SetThreadQueue(abt, Head(q).thread_id,
                           Append(ThreadQueue(abt, Head(q).thread_id), Entry(Head(q)))),
            Tail(q))

\* The decline the loop would send by itself for every request of q
RECURSIVE Declined(_, _)
Declined(log, q) ==
    IF q = <<>> THEN log
    ELSE Declined(approve_request(log, Entry(Head(q)), "d"), Tail(q))

\* A drain step that answers every request it queues
DrainRequestsAnswering ==
    /\ pc = "drain"
    /\ pc' = AfterStep("drain")
    /\ approval_queue' = DrainQueue(approval_queue, requests)
    /\ approvals_by_thread' = IF args.frontend = "plain" THEN approvals_by_thread
                              ELSE DrainByThread(approvals_by_thread, requests)
    /\ requests' = <<>>
    /\ responded' = Declined(responded, requests)
    /\ UNCHANGED <<args, lab, server, reviewed, pending_prompts, remaining, waiting, agents, pending_reviews,
                   events, rt, rt_next_req, files, expired, turn_log, queued_log,
                   completed, outputs, wait_hist>>

\* The drain step of an iteration: next_request(timeout=0) until queue.Empty.
\* run_plain keeps the global FIFO only.
DrainRequests ==
    /\ pc = "drain"
    /\ pc' = AfterStep("drain")
    /\ approval_queue' = DrainQueue(approval_queue, requests)
    /\ approvals_by_thread' = IF args.frontend = "plain" THEN approvals_by_thread
                              ELSE DrainByThread(approvals_by_thread, requests)
    /\ requests' = <<>>
    /\ UNCHANGED <<args, lab, server, reviewed, pending_prompts, remaining, waiting, agents, pending_reviews,
                   events, rt, rt_next_req, files, expired, turn_log, queued_log,
                   completed, responded, outputs, wait_hist>>

\* run_plain's approval step: the oldest request is popped and prompt_approval
\* prints it and calls input().  The popped request is kept at the head of
\* approval_queue until it is answered: nothing reads the queue meanwhile.
PromptApproval ==
    /\ pc = "approval"
    /\ approval_queue # <<>>
    /\ pc' = "asking"
    /\ UNCHANGED <<args, lab, server, reviewed, pending_prompts, remaining, waiting, agents, pending_reviews,
                   events, requests, approval_queue, approvals_by_thread, rt,
                   rt_next_req, files, expired, turn_log, queued_log, completed,
                   responded, outputs, wait_hist>>

\* input() of prompt_approval returns what the operator typed: a choice that
\* encodes to no decision is asked for again, any other is sent and the
\* iteration goes on.
OperatorAnswers(choice) ==
    LET decision == get_decision_payload(Head(approval_queue).method, choice,
                                         Head(approval_queue).amendment)
    IN
    /\ pc = "asking"
    /\ IF decision = NoPayload
       THEN UNCHANGED <<responded, approval_queue, pc>>
       ELSE /\ responded' = approve_request(responded, Head(approval_queue), choice)
            /\ approval_queue' = Tail(approval_queue)
            /\ pc' = AfterStep("approval")
    /\ UNCHANGED <<args, lab, server, reviewed, pending_prompts, remaining, waiting, agents, pending_reviews,
                   events, requests, approvals_by_thread, rt, rt_next_req, files,
                   expired, turn_log, queued_log, completed, outputs, wait_hist>>

\* run_plain's approval step with nothing pending.
NoApproval ==
    /\ pc = "approval"
    /\ approval_queue = <<>>
    /\ pc' = AfterStep("approval")
    /\ UNCHANGED <<args, lab, server, reviewed, pending_prompts, remaining, waiting, agents, pending_reviews,
                   events, requests, approval_queue, approvals_by_thread, rt,
                   rt_next_req, files, expired, turn_log, queued_log, completed,
                   responded, outputs, wait_hist>>

\* The runtime asks for an approval in a running turn (thread NoThread: a
\* request that names no thread) and the reader queues the request.
RuntimeRequestsApproval(t, method, amendment) ==
    /\ BeforeDrain
    /\ rt_next_req <= MaxRequests
    /\ t # NoThread => rt[t].inflight > 0
    /\ requests' = Append(requests, [id |-> rt_next_req, method |-> method,
                                     thread_id |-> t, amendment |-> amendment])
    /\ rt_next_req' = rt_next_req + 1
    /\ UNCHANGED <<args, lab, server, reviewed, pending_prompts, remaining, waiting, agents, pending_reviews,
                   events, approval_queue, approvals_by_thread, rt, files, expired, pc,
                   turn_log, queued_log, completed, responded, outputs, wait_hist>>

\* Somebody writes, rewrites or removes the gate file.
FileChanges(f) ==
    /\ BeforeFileRead
    /\ files["/tmp/x"] # f
    /\ files' = [files EXCEPT !["/tmp/x"] = f]
    /\ UNCHANGED <<args, lab, server, reviewed, pending_prompts, remaining, waiting, agents, pending_reviews,
                   events, requests, approval_queue, approvals_by_thread, rt,
                   rt_next_req, expired, pc, turn_log, queued_log, completed,
                   responded, outputs, wait_hist>>

(***************************************************************************)
(* Requests of the control loop that get no response in time.              *)
(***************************************************************************)
\* server.request raises TimeoutError (AppServer._wait_response).  No caller
\* between the request and main() catches it: run_plain / run_curses are left
\* by the exception and the process ends.  What the variables hold in a
\* process that is ending is of no matter; they are left as they are.
Crash ==
    /\ pc' = "crashed"
    /\ UNCHANGED <<args, lab, server, reviewed, pending_prompts, remaining, waiting,
                   agents, pending_reviews, events, requests, approval_queue,
                   approvals_by_thread, rt, rt_next_req, files, expired, turn_log,
                   queued_log, completed, responded, outputs, wait_hist>>

\* thread/start or turn/start of start_agent times out, in a
\* start_ready_agents() that has a spec to start.
StartAgentTimesOut ==
    /\ pc \in {"boot", "sched"}
    /\ ScanLoop(ScanState).turn_log # turn_log
    /\ Crash

\* turn/start of start_agent_prompt times out, for the prompt the operator
\* typed for an agent that is done.
PromptTimesOut(key) ==
    /\ pc = "input"
    /\ outputs.n < MaxCmds
    /\ resolve_agent(agents, key) # NoThread
    /\ agents[resolve_agent(agents, key)].done
    /\ Crash

\* turn/start of start_agent_prompt times out, for the follow-up that
\* process_event dequeues on turn/completed.
FollowUpTimesOut ==
    /\ pc = "event"
    /\ events # <<>>
    /\ Head(events).method = "turn/completed"
    /\ Head(events).thread_id \in DOMAIN agents
    /\ agents[Head(events).thread_id].queued_prompts # <<>>
    /\ Crash

\* thread/start or turn/start of the automatic review times out.
ReviewStartTimesOut ==
    /\ pc = "event"
    /\ events # <<>>
    /\ Head(events).method = "turn/completed"
    /\ Head(events).thread_id \in DOMAIN agents
    /\ args.review
    /\ agents[Head(events).thread_id].last_message # None
    /\ Crash

(***************************************************************************)
(* AppServer: the protocol client.                                         *)
(***************************************************************************)
Flows == {1, 2}         \* the flows of control that call the AppServer
NoFlow == 0             \* nobody holds self._lock

\* A flow that is not inside a call.
IdleFlow == [pc |-> "idle", op |-> "none", req_id |-> 0, returned |-> 0,
             early |-> FALSE]

\* AppServer.__init__
ServerInit ==
    [next_id |-> 1, lock |-> NoFlow, responses |-> <<>>, events |-> <<>>,
     requests |-> <<>>, stdin |-> <<>>, stdout |-> <<>>, reader |-> "running",
     proc |-> "running", sent |-> 0, calls |-> 0, flows |-> [f \in Flows |-> IdleFlow]]

\* Every variable but server stays as it is.
ServerFrame ==
    UNCHANGED <<args, lab, reviewed, pending_prompts, remaining, waiting, agents,
                pending_reviews, events, requests, approval_queue,
                approvals_by_thread, rt, rt_next_req, files, expired, pc, turn_log,
                queued_log, completed, responded, outputs, wait_hist>>

\* A line of the subprocess' output.  kind is what json.loads makes of it:
\* "object" (a dict, with the keys it has; id 0: no "id" key), "scalar" (a
\* number, true, false or null), "garbage" (JSONDecodeError), "blank" (empty
\* after strip()).
Line(kind, method, id, result, error) ==
    [kind |-> kind, method |-> method, id |-> id, result |-> result, error |-> error]

Object(method, id, result, error) == Line("object", method, id, result, error)

\* a lock that never keeps anybody out
LockFreeAlways(sv) == TRUE

\* `with self._lock:` can be entered
LockFree(sv) == sv.lock = NoFlow

\* A flow calls request(), notify() or respond(id, ...).
Call(f, op, id) ==
    /\ server.flows[f].pc \in {"idle", "done", "timeout"}
    /\ server.calls < MaxCalls
    /\ server' = [server EXCEPT
                     !.calls = @ + 1,
                     !.flows[f] = [pc |-> "acquire", op |-> op,
                                   req_id |-> IF op = "respond" THEN id ELSE 0,
                                   returned |-> 0, early |-> FALSE]]
    /\ ServerFrame

\* with self._lock:
Acquire(f) ==
    /\ server.flows[f].pc = "acquire"
    /\ LockFree(server)
    /\ server' = [server EXCEPT
                     !.lock = f,
                     !.flows[f].pc = IF server.flows[f].op = "request" THEN "alloc"
                                     ELSE "write"]
    /\ ServerFrame

\* req_id = self._next_id
Allocate(f) ==
    /\ server.flows[f].pc = "alloc"
    /\ server' = [server EXCEPT !.flows[f].req_id = server.next_id,
                                !.flows[f].pc = "incr"]
    /\ ServerFrame

\* self._next_id += 1
Increment(f) ==
    /\ server.flows[f].pc = "incr"
    /\ server' = [server EXCEPT !.next_id = @ + 1, !.flows[f].pc = "write"]
    /\ ServerFrame

\* self._stdin.write(json.dumps(payload) + "\n"): the first characters of the
\* line reach the pipe
WriteHead(f) ==
    /\ server.flows[f].pc = "write"
    /\ server' = [server EXCEPT
                     !.stdin = Append(@, [flow |-> f, op |-> server.flows[f].op,
                                          id |-> server.flows[f].req_id,
                                          part |-> "head"]),
                     !.flows[f].pc = "flush"]
    /\ ServerFrame

\* ... the rest of the line and its "\n" reach the pipe (flush()), and the
\* `with` block is left; request() goes on to _wait_response.
WriteTail(f) ==
    /\ server.flows[f].pc = "flush"
    /\ server' = [server EXCEPT
                     !.stdin = Append(@, [flow |-> f, op |-> server.flows[f].op,
                                          id |-> server.flows[f].req_id,
                                          part |-> "tail"]),
                     !.lock = NoFlow,
                     !.flows[f].pc = IF server.flows[f].op = "request" THEN "wait"
                                     ELSE "done",
                     !.flows[f].early = (server.flows[f].op = "request"
                                         /\ server.flows[f].req_id
                                               \in DOMAIN server.responses)]
    /\ ServerFrame

\* _wait_response that hands out whatever response is stored
WaitOutcomeAny(sv, f, elapsed) ==
    IF DOMAIN sv.responses # {} THEN "return"
    ELSE IF elapsed THEN "timeout"
    ELSE "wait"

\* One pass of _wait_response's loop: the response is there, or the time is
\* up (elapsed: deadline - time.time() <= 0), or the flow waits on the
\* condition.
WaitOutcome(sv, f, elapsed) ==
    IF sv.flows[f].req_id \in DOMAIN sv.responses THEN "return"
    ELSE IF elapsed THEN "timeout"
    ELSE "wait"

\* The id under which _wait_response finds its response.
FoundId(sv, f) ==
    IF sv.flows[f].req_id \in DOMAIN sv.responses THEN sv.flows[f].req_id
    ELSE CHOOSE i \in DOMAIN sv.responses : TRUE

\* _wait_response leaves its loop: return self._responses.pop(req_id), or
\* raise TimeoutError.
WaitResponse(f, elapsed) ==
    /\ server.flows[f].pc = "wait"
    /\ WaitOutcome(server, f, elapsed) # "wait"
    /\ IF WaitOutcome(server, f, elapsed) = "return"
       THEN LET i == FoundId(server, f) IN
            server' = [server EXCEPT
                          !.responses = [k \in DOMAIN server.responses \ {i} |->
                                            server.responses[k]],
                          !.flows[f].returned = server.responses[i].id,
                          !.flows[f].pc = "done"]
       ELSE server' = [server EXCEPT !.flows[f].pc = "timeout"]
    /\ ServerFrame

\* The subprocess writes a line.
RuntimeWrites(line) ==
    /\ server.proc = "running"
    /\ server.sent < MaxLines
    /\ server' = [server EXCEPT !.stdout = Append(@, line), !.sent = @ + 1]
    /\ ServerFrame

\* The subprocess exits.
RuntimeExits ==
    /\ server.proc = "running"
    /\ server' = [server EXCEPT !.proc = "exited"]
    /\ ServerFrame

\* _read_loop that takes every message with an id for a response
ReadLineIdFirst(sv, msg) ==
    IF msg.kind \in {"blank", "garbage"} THEN sv
    ELSE IF msg.kind = "scalar" THEN [sv EXCEPT !.reader = "died"]
    ELSE IF msg.id # 0
    THEN [sv EXCEPT !.responses =
             [k \in DOMAIN sv.responses \cup {msg.id} |->
                 IF k = msg.id THEN msg ELSE sv.responses[k]]]
    ELSE IF msg.method THEN [sv EXCEPT !.events = Append(@, msg)]
    ELSE sv

\* One iteration of _read_loop on the line msg.  `"method" in msg` raises
\* TypeError when msg is a number, a boolean or null: the reader thread ends.
ReadLine(sv, msg) ==
    IF msg.kind \in {"blank", "garbage"} THEN sv
    ELSE IF msg.kind = "scalar" THEN [sv EXCEPT !.reader = "died"]
    ELSE IF msg.method /\ msg.id # 0 /\ ~msg.result /\ ~msg.error
    THEN [sv EXCEPT !.requests = Append(@, msg)]
    ELSE IF msg.id # 0
    THEN [sv EXCEPT !.responses =
             [k \in DOMAIN sv.responses \cup {msg.id} |->
                 IF k = msg.id THEN msg ELSE sv.responses[k]]]
    ELSE IF msg.method THEN [sv EXCEPT !.events = Append(@, msg)]
    ELSE sv

\* The reader takes the next line of the subprocess' output.
ReaderStep ==
    /\ server.reader = "running"
    /\ server.stdout # <<>>
    /\ server' = ReadLine([server EXCEPT !.stdout = Tail(@)], Head(server.stdout))
    /\ ServerFrame

\* The reader finds the end of the output of a subprocess that exited.
ReaderEnds ==
    /\ server.reader = "running"
    /\ server.stdout = <<>>
    /\ server.proc = "exited"
    /\ server' = [server EXCEPT !.reader = "ended"]
    /\ ServerFrame

(***************************************************************************)
(* Review artifacts.                                                       *)
(***************************************************************************)
\* review_labels = {}, review_written = set(), no file written, nothing logged.
\* History: emitted counts the review items of the runtime, exited lists the
\* ids of the exited-review-mode items with output and id that were processed.
ReviewsInit ==
    [review_labels |-> <<>>, review_written |-> {}, artifacts |-> <<>>,
     history |-> <<>>, recent_logs |-> <<>>, emitted |-> 0, exited |-> <<>>]

\* The item/completed branch of process_event that writes the artifact of
\* every exited-review-mode item with output and id
ReviewItemCompletedAgain(rv, t, item) ==
    IF item.type = "enteredReviewMode"
    THEN IF item.id # ""
         THEN [rv EXCEPT !.review_labels =
                  [i \in DOMAIN rv.review_labels \cup {item.id} |-> item.review]]
         ELSE rv
    ELSE IF item.type = "exitedReviewMode" /\ item.review # "" /\ item.id # ""
    THEN [rv EXCEPT
            !.artifacts = Append(@, [thread_id |-> t, review_id |-> item.id,
                                     review_output |-> item.review]),
            !.review_written = @ \cup {item.id},
            !.history = Append(@, [thread_id |-> t, saved |-> item.id]),
            !.recent_logs = Append(@, item.id)]
    ELSE rv

\* The item/completed branch of process_event for the items of a review, on a
\* thread of agents: an enteredReviewMode item leaves its label under its id;
\* an exitedReviewMode item with output and an id not in review_written pops
\* the label, writes the artifact (write_review_output), adds the id to
\* review_written and reports the path to the agent's history and recent_logs.
ReviewItemCompleted(rv, t, item) ==
    IF item.type = "enteredReviewMode"
    THEN IF item.id # ""
         THEN [rv EXCEPT !.review_labels =
                  [i \in DOMAIN rv.review_labels \cup {item.id} |->
                      IF i = item.id THEN item.review ELSE rv.review_labels[i]]]
         ELSE rv
    ELSE IF item.type = "exitedReviewMode" /\ item.review # "" /\ item.id # ""
            /\ item.id \notin rv.review_written
    THEN [rv EXCEPT
            !.review_labels = [i \in DOMAIN rv.review_labels \ {item.id} |->
                                  rv.review_labels[i]],
            !.artifacts = Append(@, [thread_id |-> t, review_id |-> item.id,
                                     review_label |->
                                        IF item.id \in DOMAIN rv.review_labels
                                        THEN rv.review_labels[item.id] ELSE "",
                                     review_output |-> item.review]),
            !.review_written = @ \cup {item.id},
            !.history = Append(@, [thread_id |-> t, saved |-> item.id]),
            !.recent_logs = Append(@, item.id)]
    ELSE rv

\* The event step of an iteration for an item/completed event of a review item.
ProcessItemEvent ==
    /\ pc = "event"
    /\ events # <<>>
    /\ "item" \in DOMAIN Head(events)
    /\ LET t == Head(events).thread_id
           item == Head(events).item
           rv == IF t \in DOMAIN agents THEN ReviewItemCompleted(reviewed, t, item)
                 ELSE reviewed
       IN  reviewed' =
              IF t \in DOMAIN agents /\ item.type = "exitedReviewMode"
                 /\ item.review # "" /\ item.id # ""
              THEN [rv EXCEPT !.exited = Append(@, item.id)]
              ELSE rv
    /\ events' = Tail(events)
    /\ pc' = AfterStep("event")
    /\ UNCHANGED <<args, lab, server, pending_prompts, remaining, waiting, agents,
                   pending_reviews, requests, approval_queue, approvals_by_thread, rt,
                   rt_next_req, files, expired, turn_log, queued_log, completed,
                   responded, outputs, wait_hist>>

\* The runtime completes an item of a review on thread t; the reader queues
\* the event.
RuntimeReviewItem(t, type, id, review) ==
    /\ BeforeEventPoll
    /\ Len(events) < MaxEvents
    /\ reviewed.emitted < MaxItems
    /\ events' = Append(events, [method |-> "item/completed", thread_id |-> t,
                                 item |-> [type |-> type, id |-> id, review |-> review]])
    /\ reviewed' = [reviewed EXCEPT !.emitted = @ + 1]
    /\ UNCHANGED <<args, lab, server, pending_prompts, remaining, waiting, agents,
                   pending_reviews, requests, approval_queue, approvals_by_thread, rt,
                   rt_next_req, files, expired, pc, turn_log, queued_log, completed,
                   responded, outputs, wait_hist>>

(***************************************************************************)
(* Pure functions, applied to arguments drawn from bounded sets.           *)
(***************************************************************************)
NoLab == [fn |-> "none"]

\* Every other variable stays as the set-up left it.
LoopIdle ==
    UNCHANGED <<args, pending_prompts, remaining, waiting, agents, pending_reviews,
                events, requests, approval_queue, approvals_by_thread, rt,
                rt_next_req, files, expired, pc, turn_log, queued_log, completed,
                responded, outputs, wait_hist>>

\* get_decision_payload(method, choice, amendment)
PayloadMethods ==
    {"applyPatchApproval", "execCommandApproval",
     "item/commandExecution/requestApproval", "item/fileChange/requestApproval"}
PayloadChoices == {"a", "s", "p", "d", "c", "x", "A", ""}
PayloadAmendments == {None, "", "amend"}

\* The characters of a prompt.  A directive keyword is one symbol, and so is a
\* word without blank, bar or comma in it.
WAIT_FOR_STATUS == "WAIT_FOR_STATUS:"
WAIT_FOR_AGENT_DONE == "WAIT_FOR_AGENT_DONE:"
WAIT_FOR_AGENT == "WAIT_FOR_AGENT:"
WAIT_FOR_AGENTS == "WAIT_FOR_AGENTS:"

\* s.startswith(keyword)
StartsWith(s, keyword) == s # <<>> /\ Head(s) = keyword

\* c in s
Contains(s, c) == \E k \in 1..Len(s) : s[k] = c

\* s.split("||"), cur being the part collected so far
RECURSIVE SplitBars(_, _)
SplitBars(s, cur) ==
    IF s = <<>> THEN <<cur>>
    ELSE IF Len(s) >= 2 /\ s[1] = "|" /\ s[2] = "|"
    THEN <<cur>> \o SplitBars(SubSeq(s, 3, Len(s)), <<>>)
    ELSE SplitBars(Tail(s), Append(cur, Head(s)))

\* s.split(",")
RECURSIVE SplitCommas(_, _)
SplitCommas(s, cur) ==
    IF s = <<>> THEN <<cur>>
    ELSE IF Head(s) = "," THEN <<cur>> \o SplitCommas(Tail(s), <<>>)
    ELSE SplitCommas(Tail(s), Append(cur, Head(s)))

\* "||".join(parts)
RECURSIVE JoinBars(_)
JoinBars(parts) ==
    IF parts = <<>> THEN <<>>
    ELSE IF Len(parts) = 1 THEN parts[1]
    ELSE parts[1] \o <<"|", "|">> \o JoinBars(Tail(parts))

\* [d.strip() for d in directive.split(",") if d.strip()]
RECURSIVE StrippedNonEmpty(_)
StrippedNonEmpty(pieces) ==
    IF pieces = <<>> THEN <<>>
    ELSE IF Strip(Head(pieces)) = <<>> THEN StrippedNonEmpty(Tail(pieces))
    ELSE <<Strip(Head(pieces))>> \o StrippedNonEmpty(Tail(pieces))

DirectiveDeps(directive) == StrippedNonEmpty(SplitCommas(directive, <<>>))

\* path, status = directive.split("|", 1); wait = (path.strip(), status.strip())
DirectiveWait(directive) ==
    LET k == CHOOSE k \in 1..Len(directive) :
                directive[k] = "|" /\ \A j \in 1..(k - 1) : directive[j] # "|"
    IN  <<Strip(SubSeq(directive, 1, k - 1)),
          Strip(SubSeq(directive, k + 1, Len(directive)))>>

NoGate == <<>>      \* wait = None

\* extract_directives that keeps looking for directives behind free text
RECURSIVE ExtractLoopSkipping(_, _, _, _)
ExtractLoopSkipping(parts, i, wait, deps) ==
    IF i > Len(parts) THEN [body |-> <<>>, wait |-> wait, deps |-> deps]
    ELSE LET token == Strip(parts[i])
             directive == Strip(Tail(token))
         IN  IF StartsWith(token, WAIT_FOR_STATUS) /\ Contains(directive, "|")
             THEN ExtractLoopSkipping(parts, i + 1, DirectiveWait(directive), deps)
             ELSE IF StartsWith(token, WAIT_FOR_AGENT_DONE)
                     \/ StartsWith(token, WAIT_FOR_AGENT)
                     \/ StartsWith(token, WAIT_FOR_AGENTS)
             THEN ExtractLoopSkipping(parts, i + 1, wait,
                                      deps \o DirectiveDeps(directive))
             ELSE LET rest == ExtractLoopSkipping(parts, i + 1, wait, deps) IN
                  [rest EXCEPT !.body =
                      Strip(IF rest.body = <<>> THEN parts[i]
                            ELSE parts[i] \o <<"|", "|">> \o rest.body)]

\* The while loop of extract_directives from index i on (parts[i - 1] in the
\* code, which counts from 0), and the lines behind it.
RECURSIVE ExtractLoop(_, _, _, _)
ExtractLoop(parts, i, wait, deps) ==
    IF i > Len(parts) THEN [body |-> <<>>, wait |-> wait, deps |-> deps]
    ELSE LET token == Strip(parts[i])
             directive == Strip(Tail(token))
         IN  IF StartsWith(token, WAIT_FOR_STATUS) /\ Contains(directive, "|")
             THEN ExtractLoop(parts, i + 1, DirectiveWait(directive), deps)
             ELSE IF StartsWith(token, WAIT_FOR_AGENT_DONE)
             THEN ExtractLoop(parts, i + 1, wait, deps \o DirectiveDeps(directive))
             ELSE IF StartsWith(token, WAIT_FOR_AGENT)
             THEN ExtractLoop(parts, i + 1, wait, deps \o DirectiveDeps(directive))
             ELSE IF StartsWith(token, WAIT_FOR_AGENTS)
             THEN ExtractLoop(parts, i + 1, wait, deps \o DirectiveDeps(directive))
             ELSE [body |-> Strip(JoinBars(SubSeq(parts, i, Len(parts)))),
                   wait |-> wait, deps |-> deps]

extract_directives(prompt) == ExtractLoop(SplitBars(prompt, <<>>), 1, NoGate, <<>>)

(***************************************************************************)
(* Runs.                                                                   *)
(***************************************************************************)
Args(agent, cap, review, timeout, frontend) ==
    [agent |-> agent, max_parallel |-> cap, review |-> review, timeout |-> timeout,
     frontend |-> frontend]

NoWaitHist ==
    [began |-> FALSE, ready_at_begin |-> FALSE, reads |-> 0, sleeps |-> 0,
     matched |-> FALSE, returned |-> FALSE]

\* The state after the set-up of run_plain / run_curses, before the first
\* start_ready_agents(): a is the command line, f the gate file.
LoopInitWith(a, f) ==
    /\ args = a
    /\ pending_prompts = a.agent
    /\ remaining = <<>>
    /\ waiting = NoItem
    /\ agents = <<>>
    /\ pending_reviews = <<>>
    /\ events = <<>>
    /\ requests = <<>>
    /\ approval_queue = <<>>
    /\ approvals_by_thread = <<>>
    /\ rt = <<>>
    /\ rt_next_req = 1
    /\ files = [p \in {"/tmp/x"} |-> f]
    /\ expired = FALSE
    /\ pc = "boot"
    /\ turn_log = <<>>
    /\ queued_log = <<>>
    /\ completed = {}
    /\ responded = <<>>
    /\ outputs = [n |-> 0, last |-> ""]
    /\ wait_hist = [i \in 1..Len(a.agent) |-> NoWaitHist]

\* The same, with the AppServer as its constructor leaves it and no review
\* seen yet.
InitWith(a, f) ==
    /\ LoopInitWith(a, f)
    /\ lab = NoLab
    /\ server = ServerInit
    /\ reviewed = ReviewsInit

\* --agent lists
Pair == <<Item(1, <<"b">>, NoWait, <<>>), Item(2, NoName, NoWait, <<>>)>>
PairByName == <<Item(1, <<"b">>, NoWait, <<>>), Item(2, NoName, NoWait, << <<"b">> >>)>>
Chain ==
    <<Item(1, NoName, NoWait, <<>>),
      Item(2, NoName, NoWait, << <<"1">> >>),
      Item(3, NoName, NoWait, << <<"1">>, <<"2">> >>)>>
BlockedFirst ==
    <<Item(1, NoName, NoWait, << <<"9">> >>),
      Item(2, <<"b">>, NoWait, <<>>),
      Item(3, NoName, NoWait, << <<"b">> >>)>>
BlockedMiddle ==
    <<Item(1, NoName, NoWait, <<>>),
      Item(2, NoName, NoWait, << <<"1">>, <<"x">> >>),
      Item(3, NoName, NoWait, << <<"0", "1">> >>)>>
BlockedLast ==
    <<Item(1, NoName, NoWait, <<>>),
      Item(2, NoName, NoWait, <<>>),
      Item(3, NoName, NoWait, << <<"4">> >>)>>

Keys == {<<"1">>, <<"B">>, <<"9">>}

\* The control loop with its operator, without approval requests and gates.
\* review, timeout and front end of the runs
Modes == {<<FALSE, 600, "plain">>, <<TRUE, 0, "curses">>}

Init ==
    \E agent \in {Pair, PairByName}, cap \in {0, 1}, mode \in Modes :
        InitWith(Args(agent, cap, mode[1], mode[2], mode[3]), NoFile)

Next ==
    \/ TickStart
    \/ StartReadyAgents
    \/ DrainRequests
    \/ NoApproval
    \/ ProcessEvent
    \/ NoEvent
    \/ NoInput
    \/ \E key \in Keys : OperatorPrompt(key)
    \/ \E key \in Keys, resp \in CancelResponses : OperatorStop(key, resp)
    \/ OperatorQuit
    \/ \E t \in DOMAIN rt : RuntimeCompletes(t)
    \/ \E t \in DOMAIN agents : RuntimeMessage(t)
    \/ TimePasses

Spec == Init /\ [][Next]_vars

\* The steps of the control loop itself.
LoopStep ==
    \/ TickStart
    \/ StartReadyAgents
    \/ DrainRequests
    \/ NoApproval
    \/ ProcessEvent
    \/ NoEvent
    \/ NoInput

\* The scheduler on its own: three specs with dependencies, no operator, no
\* deadline.  The loop keeps taking steps, and the runtime finishes every turn
\* it was given (it is asked at every event poll, hence strong fairness).
SchedInit ==
    \E agent \in {Chain, BlockedFirst, BlockedMiddle, BlockedLast}, cap \in {0, 1, 2},
       frontend \in {"plain", "curses"} :
        InitWith(Args(agent, cap, FALSE, 0, frontend), NoFile)

SchedNext ==
    \/ LoopStep
    \/ \E t \in DOMAIN rt : RuntimeCompletes(t)

SchedSpec ==
    /\ SchedInit
    /\ [][SchedNext]_vars
    /\ WF_vars(LoopStep)
    /\ \A t \in 1..3 : SF_vars(t \in DOMAIN rt /\ RuntimeCompletes(t))

\* Readiness gates.
GatedFirst ==
    <<Item(1, NoName, Gate(<<"r">>), <<>>), Item(2, NoName, NoWait, <<>>)>>
GatedBoth ==
    <<Item(1, NoName, Gate(<<"r">>), <<>>), Item(2, NoName, Gate(<<>>), << <<"1">> >>)>>

FileStates == {NoFile, File(<<>>), File(<<"r", "\n">>), File(<<" ", "r">>), File(<<"n", "\n">>)}

GateInit ==
    \E agent \in {GatedFirst, GatedBoth}, cap \in {0, 1}, timeout \in {0, 600},
       f \in FileStates :
        InitWith(Args(agent, cap, FALSE, timeout, "curses"), f)

GateNext ==
    \/ TickStart
    \/ StartReadyAgents
    \/ WaitPoll
    \/ DrainRequests
    \/ ProcessEvent
    \/ NoEvent
    \/ NoInput
    \/ \E t \in DOMAIN rt : RuntimeCompletes(t)
    \/ TimePasses
    \/ \E f \in FileStates : FileChanges(f)

GateSpec == GateInit /\ [][GateNext]_vars

\* The approval indices of the interactive front end.
Methods == {"execCommandApproval", "item/commandExecution/requestApproval"}
Amendments == {None, "amend"}
Choices == {"a", "p", "x"}      \* accept, amendment, an unsupported letter

ApprovalInit == InitWith(Args(Pair, 0, FALSE, 0, "curses"), NoFile)

ApprovalNext ==
    \/ TickStart
    \/ StartReadyAgents
    \/ DrainRequests
    \/ ProcessEvent
    \/ NoEvent
    \/ NoInput
    \/ \E t \in DOMAIN rt : RuntimeCompletes(t)
    \/ \E t \in DOMAIN rt \cup {NoThread}, m \in Methods, am \in Amendments :
          RuntimeRequestsApproval(t, m, am)
    \/ \E target \in {NoKey, <<"1">>, <<"9">>}, choice \in Choices \cup {NoChoice} :
          OperatorApprove(target, choice)
    \/ \E key \in {<<"1">>, <<"B">>}, choice \in Choices \ {"x"} : OperatorChoice(key, choice)

ApprovalSpec == ApprovalInit /\ [][ApprovalNext]_vars

\* The control loop with its operator, and requests that time out.  A
\* turn/cancel that times out is OperatorStop with resp = "timeout":
\* try_cancel_turn catches the exception.
FaultNext ==
    \/ Next
    \/ StartAgentTimesOut
    \/ \E key \in Keys : PromptTimesOut(key)
    \/ FollowUpTimesOut
    \/ ReviewStartTimesOut

FaultSpec == Init /\ [][FaultNext]_vars

\* The iterations of run_plain with everything that can hold one up: gates,
\* approval requests, the operator.  The loop's thread takes its own steps, the
\* clock goes on and the runtime finishes its turns; nobody makes the operator
\* answer or the gate file change.
TickInit ==
    \E agent \in {Pair, GatedBoth}, timeout \in {0, 600}, f \in {NoFile, File(<<"r", "\n">>)} :
        InitWith(Args(agent, 0, FALSE, timeout, "plain"), f)

\* The steps the loop's thread takes without waiting for anybody.
TickLoopStep ==
    \/ TickStart
    \/ StartReadyAgents
    \/ WaitPoll
    \/ DrainRequests
    \/ PromptApproval
    \/ NoApproval
    \/ NoInput
    \/ ProcessEvent
    \/ NoEvent

TickNext ==
    \/ TickLoopStep
    \/ \E choice \in Choices : OperatorAnswers(choice)
    \/ \E key \in {<<"1">>} : OperatorPrompt(key)
    \/ \E t \in DOMAIN rt : RuntimeCompletes(t)
    \/ \E t \in DOMAIN rt, m \in Methods : RuntimeRequestsApproval(t, m, None)
    \/ TimePasses
    \/ \E f \in {NoFile, File(<<>>)} : FileChanges(f)

TickSpec ==
    /\ TickInit
    /\ [][TickNext]_vars
    /\ WF_vars(TickLoopStep)
    /\ WF_vars(TimePasses)
    /\ \A t \in 1..2 : SF_vars(t \in DOMAIN rt /\ RuntimeCompletes(t))

\* The control loop with an operator who asks for reviews; no automatic
\* reviews.
ReviewCommandInit ==
    \E frontend \in {"plain", "curses"} :
        InitWith(Args(Pair, 0, FALSE, 0, frontend), NoFile)

ReviewCommandNext ==
    \/ LoopStep
    \/ \E key \in {<<"1">>, <<"9">>}, detached \in BOOLEAN : OperatorReview(key, detached)
    \/ \E t \in DOMAIN rt : RuntimeCompletes(t)
    \/ \E t \in DOMAIN rt : RuntimeMessage(t)

ReviewCommandSpec == ReviewCommandInit /\ [][ReviewCommandNext]_vars

\* Both front ends with approval requests and an operator who answers them
\* and sends prompts.
FrontEndsInit ==
    \E frontend \in {"plain", "curses"} :
        InitWith(Args(Pair, 0, FALSE, 0, frontend), NoFile)

FrontEndsNext ==
    \/ LoopStep
    \/ PromptApproval
    \/ \E choice \in Choices : OperatorAnswers(choice)
    \/ \E key \in {<<"1">>} : OperatorPrompt(key)
    \/ \E target \in {NoKey, <<"1">>}, choice \in Choices \cup {NoChoice} :
          OperatorApprove(target, choice)
    \/ \E key \in {<<"1">>, <<"B">>}, choice \in Choices \ {"x"} : OperatorChoice(key, choice)
    \/ \E t \in DOMAIN rt : RuntimeCompletes(t)
    \/ \E t \in DOMAIN rt \cup {NoThread}, m \in Methods :
          RuntimeRequestsApproval(t, m, None)

FrontEndsSpec == FrontEndsInit /\ [][FrontEndsNext]_vars

\* The control loop with one agent whose turn streams agent text and a
\* reasoning summary; no operator.
StreamInit ==
    \E frontend \in {"plain", "curses"} :
        InitWith(Args(<<Item(1, NoName, NoWait, <<>>)>>, 0, FALSE, 0, frontend), NoFile)

StreamNext ==
    \/ LoopStep
    \/ \E t \in DOMAIN rt : RuntimeCompletes(t)
    \/ \E t \in DOMAIN rt : RuntimeMessage(t)
    \/ \E t \in DOMAIN rt, method \in DeltaMethods, delta \in Deltas :
          RuntimeDelta(t, method, delta)

StreamSpec == StreamInit /\ [][StreamNext]_vars

\* The items of reviews: two ids and a missing one, with and without output,
\* on the threads of two agents and on an unknown thread.
ReviewIds == {"", "r1", "r2"}
ReviewTexts == {"", "text"}
ReviewItemTypes == {"enteredReviewMode", "exitedReviewMode"}

ReviewInit ==
    \E frontend \in {"plain", "curses"} :
        InitWith(Args(Pair, 0, FALSE, 0, frontend), NoFile)

ReviewNext ==
    \/ TickStart
    \/ StartReadyAgents
    \/ DrainRequests
    \/ NoApproval
    \/ NoInput
    \/ NoEvent
    \/ ProcessItemEvent
    \/ \E t \in 1..3, type \in ReviewItemTypes, id \in ReviewIds,
          review \in ReviewTexts : RuntimeReviewItem(t, type, id, review)

ReviewSpec == ReviewInit /\ [][ReviewNext]_vars

\* The control loop with one agent and a detached review session that the
\* operator starts: the session is in neither agents nor pending_reviews, and
\* the runtime sends its events like any other session's.
StrayInit ==
    \E frontend \in {"plain", "curses"} :
        InitWith(Args(<<Item(1, NoName, NoWait, <<>>)>>, 0, FALSE, 0, frontend), NoFile)

\* The thread id of the first detached review: the agent's session is thread 1.
\* Deltas and review items are sent for this session.
FirstStray == 2

StrayNext ==
    \/ LoopStep
    \/ ProcessItemEvent
    \/ OperatorReview(<<"1">>, TRUE)
    \/ \E t \in DOMAIN rt : RuntimeCompletes(t)
    \/ \E t \in DOMAIN rt : RuntimeMessage(t)
    \/ \E t \in DOMAIN rt \cap {FirstStray} :
          RuntimeDelta(t, "item/agentMessage/delta", <<"a", " ">>)
    \/ \E t \in DOMAIN rt \cap {FirstStray} :
          RuntimeReviewItem(t, "exitedReviewMode", "r1", "text")

StraySpec == StrayInit /\ [][StrayNext]_vars

\* The reader alone, on every kind of line.
Lines ==
    {Object(FALSE, 1, TRUE, FALSE), Object(FALSE, 2, FALSE, TRUE),
     Object(TRUE, 0, FALSE, FALSE), Object(TRUE, 1, FALSE, FALSE),
     Object(TRUE, 1, TRUE, FALSE), Object(FALSE, 1, FALSE, FALSE),
     Object(FALSE, 0, FALSE, FALSE), Object(FALSE, 0, TRUE, FALSE),
     Line("scalar", FALSE, 0, FALSE, FALSE), Line("garbage", FALSE, 0, FALSE, FALSE),
     Line("blank", FALSE, 0, FALSE, FALSE)}

ServerInitWith ==
    /\ LoopInitWith(Args(<<Item(1, NoName, NoWait, <<>>)>>, 0, FALSE, 0, "plain"), NoFile)
    /\ lab = NoLab
    /\ reviewed = ReviewsInit
    /\ server = ServerInit

ReaderNext ==
    \/ \E line \in Lines : RuntimeWrites(line)
    \/ RuntimeExits
    \/ ReaderStep
    \/ ReaderEnds

ReaderSpec == ServerInitWith /\ [][ReaderNext]_vars

\* Two flows calling the AppServer, the reader, and a subprocess that answers
\* with responses in any order, events and server requests.
ClientLines ==
    {Object(FALSE, 1, TRUE, FALSE), Object(FALSE, 2, FALSE, TRUE),
     Object(TRUE, 1, FALSE, FALSE)}

ClientNext ==
    \/ \E f \in Flows, op \in {"request", "notify", "respond"} : Call(f, op, 1)
    \/ \E f \in Flows : Acquire(f)
    \/ \E f \in Flows : Allocate(f)
    \/ \E f \in Flows : Increment(f)
    \/ \E f \in Flows : WriteHead(f)
    \/ \E f \in Flows : WriteTail(f)
    \/ \E f \in Flows, elapsed \in BOOLEAN : WaitResponse(f, elapsed)
    \/ \E line \in ClientLines : RuntimeWrites(line)
    \/ RuntimeExits
    \/ ReaderStep
    \/ ReaderEnds

ClientSpec ==
    /\ ServerInitWith
    /\ [][ClientNext]_vars
    /\ \A f \in Flows : WF_vars(WaitResponse(f, TRUE))

\* The pure functions, each applied once to its arguments.
PayloadInit ==
    /\ LoopInitWith(Args(<<Item(1, NoName, NoWait, <<>>)>>, 0, FALSE, 0, "plain"), NoFile)
    /\ server = ServerInit
    /\ reviewed = ReviewsInit
    /\ \E method \in PayloadMethods, choice \in PayloadChoices,
          amendment \in PayloadAmendments :
          lab = [fn |-> "get_decision_payload", method |-> method, choice |-> choice,
                 amendment |-> amendment, applied |-> FALSE, out |-> NoPayload]

ApplyDecisionPayload ==
    /\ lab.fn = "get_decision_payload"
    /\ ~lab.applied
    /\ lab' = [lab EXCEPT !.applied = TRUE,
                          !.out = get_decision_payload(lab.method, lab.choice,
                                                       lab.amendment)]
    /\ LoopIdle
    /\ UNCHANGED <<server, reviewed>>

PayloadNext == ApplyDecisionPayload

PayloadSpec == PayloadInit /\ [][PayloadNext]_vars

\* extract_directives(prompt): the prompt is made of up to MaxParts pieces,
\* joined with `||`.
Pieces ==
    {<<WAIT_FOR_AGENT, "1", ",", "2">>,
     <<WAIT_FOR_STATUS, "/tmp/x", "|", "ready">>,
     <<"do", " ", "the", " ", "work">>,
     <<" ", WAIT_FOR_AGENT_DONE, " ", "b", ",", ",", " ">>,
     <<WAIT_FOR_STATUS, "ready">>,
     <<WAIT_FOR_STATUS, " ", "p", " ", "|", " ", "r", "|", "s">>,
     <<WAIT_FOR_AGENTS, "3">>,
     <<>>,
     <<" ", "b", " ">>,
     <<"b", "|">>,
     <<"x", WAIT_FOR_AGENT, "1">>}

DirectivesInit ==
    /\ LoopInitWith(Args(<<Item(1, NoName, NoWait, <<>>)>>, 0, FALSE, 0, "plain"), NoFile)
    /\ server = ServerInit
    /\ reviewed = ReviewsInit
    /\ \E n \in 1..MaxParts : \E parts \in [1..n -> Pieces] :
          lab = [fn |-> "extract_directives", prompt |-> JoinBars(parts),
                 applied |-> FALSE, body |-> <<>>, wait |-> NoGate, deps |-> <<>>]

ApplyExtractDirectives ==
    /\ lab.fn = "extract_directives"
    /\ ~lab.applied
    /\ LET r == extract_directives(lab.prompt) IN
          lab' = [lab EXCEPT !.applied = TRUE, !.body = r.body, !.wait = r.wait,
                             !.deps = r.deps]
    /\ LoopIdle
    /\ UNCHANGED <<server, reviewed>>

DirectivesNext == ApplyExtractDirectives

DirectivesSpec == DirectivesInit /\ [][DirectivesNext]_vars

\* normalize_summary_text(text) and normalize_agent_text(text): every text of
\* up to MaxText characters.
TextChars == {"\r", "\n", " ", "-", "1", ".", "a"}

NormalizeInit ==
    /\ LoopInitWith(Args(<<Item(1, NoName, NoWait, <<>>)>>, 0, FALSE, 0, "plain"), NoFile)
    /\ server = ServerInit
    /\ reviewed = ReviewsInit
    /\ \E n \in 0..MaxText : \E text \in [1..n -> TextChars] :
          lab = [fn |-> "normalize_summary_text", text |-> text, applied |-> FALSE,
                 out |-> <<>>, agent_out |-> <<>>]

ApplyNormalize ==
    /\ lab.fn = "normalize_summary_text"
    /\ ~lab.applied
    /\ lab' = [lab EXCEPT !.applied = TRUE, !.out = normalize_summary_text(lab.text),
                          !.agent_out = normalize_agent_text(lab.text)]
    /\ LoopIdle
    /\ UNCHANGED <<server, reviewed>>

NormalizeNext == ApplyNormalize

NormalizeSpec == NormalizeInit /\ [][NormalizeNext]_vars

(***************************************************************************)
(* Properties.                                                             *)
(***************************************************************************)
Range(q) == {q[k] : k \in 1..Len(q)}

\* C1: in every reachable state of the control loop the number of agents
\* whose done flag is false is at most max_parallel.
C1_CapNeverExceeded == NonDone(agents) <= max_parallel

\* C2: respond() is called at most once with the id of any approval request.
C2_RespondedAtMostOnce ==
    \A i, j \in 1..Len(responded) :
        responded[i].req_id = responded[j].req_id => i = j

\* The approval entries held by either index.
PendingEntries ==
    Range(approval_queue)
    \cup UNION {Range(approvals_by_thread[t]) : t \in DOMAIN approvals_by_thread}

\* C3: at every tick boundary an approval entry is in the global FIFO if and
\* only if it is in the FIFO of its thread.
C3_IndicesAgree ==
    pc = "tick" =>
        \A e \in PendingEntries :
            InSeq(e, approval_queue)
            <=> InSeq(e, ThreadQueue(approvals_by_thread, e.thread_id))

\* C4: a command that reports an invalid approval decision sends no response
\* and leaves both approval indices as they were.
C4_InvalidStaysPending ==
    [][(outputs'.n # outputs.n /\ outputs'.last = "Invalid approval choice.")
        => /\ responded' = responded
           /\ approval_queue' = approval_queue
           /\ approvals_by_thread' = approvals_by_thread]_vars

\* The prompts that went through queue_agent_prompt, and of a log the part
\* that belongs to thread t, as the sequence of its prompts.
QueuedPrompts == {e.prompt : e \in Range(queued_log)}

RECURSIVE PromptsOf(_, _)
PromptsOf(log, t) ==
    IF log = <<>> THEN <<>>
    ELSE IF Head(log).thread_id = t THEN <<Head(log).prompt>> \o PromptsOf(Tail(log), t)
    ELSE PromptsOf(Tail(log), t)

RECURSIVE Only(_, _)
Only(q, S) ==
    IF q = <<>> THEN <<>>
    ELSE IF Head(q) \in S THEN <<Head(q)>> \o Only(Tail(q), S)
    ELSE Only(Tail(q), S)

\* C5: the follow-ups queued for an agent are sent as turn/start at most once
\* each and in the order they were queued, those not yet sent are still in the
\* agent's queue in that order, no thread ever has two turns in flight, and a
\* queued follow-up is sent only in the step that processes a turn/completed
\* event of its agent, whose turn the runtime has finished.
C5_FollowUpsInOrder ==
    /\ [](\A t \in DOMAIN agents :
            /\ Only(PromptsOf(turn_log, t), QueuedPrompts) \o agents[t].queued_prompts
               = PromptsOf(queued_log, t)
            /\ rt[t].inflight <= 1)
    /\ [][\A t \in DOMAIN agents :
            Len(Only(PromptsOf(turn_log', t), QueuedPrompts))
            > Len(Only(PromptsOf(turn_log, t), QueuedPrompts))
            => /\ pc = "event"
               /\ events # <<>>
               /\ Head(events) = [method |-> "turn/completed", thread_id |-> t]
               /\ ~agents[t].done
               /\ rt[t].inflight = 0]_vars

\* A follow-up went through the queue of an agent and was sent, and another
\* one queued behind it is still waiting.
C5_Witness ==
    \E t \in DOMAIN agents :
        /\ Only(PromptsOf(turn_log, t), QueuedPrompts) # <<>>
        /\ agents[t].queued_prompts # <<>>

\* The agents a dependency token refers to.
Referenced(token) ==
    {t \in DOMAIN agents :
        IF IsDigit(token) THEN agents[t].index = ToInt(token)
        ELSE agents[t].name = token}

\* C6: at a scheduler tick, every dependency token of a pending spec whose
\* agent has processed a turn/completed is treated as satisfied.
C6_CompletedOnceSatisfies ==
    pc = "sched" =>
        \A k \in 1..Len(pending_prompts) :
            \A d \in Range(pending_prompts[k].deps) :
                (\E t \in Referenced(d) : agents[t].index \in completed)
                => deps_satisfied(<<d>>, agents)

\* The spec with index i has been started / is done / has a gate.
Started(i) == \E t \in DOMAIN agents : agents[t].index = i
IsDone(i) == \E t \in DOMAIN agents : agents[t].index = i /\ agents[t].done
Gated(i) == args.agent[i].wait # NoWait

\* Dependency token d names the spec at position j of the command line.
Names(d, j) ==
    IF IsDigit(d) THEN ToInt(d) = args.agent[j].index
    ELSE parse_agent_name(args.agent[j].prompt) = d

\* A spec with a token that names no spec at all.
Unresolvable(i) ==
    \E d \in Range(args.agent[i].deps) : \A j \in 1..Len(args.agent) : ~Names(d, j)

\* The specs whose dependencies lead, in at most k steps, to specs without
\* dependencies only.
RECURSIVE Independent(_)
Independent(k) ==
    IF k = 0 THEN {}
    ELSE {i \in 1..Len(args.agent) :
            \A d \in Range(args.agent[i].deps) :
                \E j \in Independent(k - 1) : Names(d, j)}

\* C7: a spec with a dependency token that names no agent is never started,
\* and every spec whose dependencies do not lead to such a spec is started and
\* reaches done, wherever the blocked spec stands in the queue and whatever
\* the cap.
C7_BlockedSpecAlone ==
    /\ \A i \in 1..3 : Unresolvable(i) => [](~Started(i))
    /\ \A i \in 1..3 : i \in Independent(3) => <>IsDone(i)

\* A blocked spec is all that is left: every other spec is done.
C7_Witness ==
    /\ \E i \in 1..3 : Unresolvable(i)
    /\ Independent(3) # {}
    /\ \A i \in Independent(3) : IsDone(i)
    /\ Len(pending_prompts) = 1
    /\ args.max_parallel = 1

IsChainCapTwo == args.agent = Chain /\ args.max_parallel = 2

\* C8: with #2 depending on #1, #3 on #1 and #2, and a cap of 2: the first
\* scheduler tick starts #1 only; a tick after #1 completed has #2 started, and
\* #3 not as long as #2 has not completed; a tick after #2 completed has #3
\* started; the run ends only after #3 completed.
C8_ChainOrder ==
    [][IsChainCapTwo =>
        /\ (pc = "boot" /\ pc' # "boot")
              => {i \in 1..3 : Started(i)'} = {1}
        /\ (pc \in {"boot", "sched"} /\ pc' # pc)
              => /\ 1 \in completed => Started(2)'
                 /\ 2 \notin completed => ~Started(3)'
                 /\ 2 \in completed => Started(3)'
        /\ pc' = "ended" => 3 \in completed']_vars

\* The chain ran to its end.
C8_Witness == IsChainCapTwo /\ pc = "ended" /\ completed = {1, 2, 3}

\* The loop's exit condition as the claim words it.
NothingLeft ==
    /\ Len(pending_prompts) = 0
    /\ \A t \in DOMAIN agents : agents[t].done
    /\ Cardinality(DOMAIN pending_reviews) = 0

DeadlinePassed == args.timeout > 0 /\ expired

\* C9, as amended: the loop ends the run normally only at a tick start where no
\* spec is pending, every agent is done and no review session is tracked, and
\* it does end it at every such tick start at which the deadline has not
\* passed; a tick start at which the deadline has passed aborts the run.
C9_EndsAtFinishedTick ==
    /\ [][(pc' = "ended" /\ pc # "ended") => (pc = "tick" /\ NothingLeft)]_vars
    /\ [][(pc = "tick" /\ pc' # "tick" /\ NothingLeft /\ ~DeadlinePassed)
            => pc' = "ended"]_vars
    /\ [][(pc = "tick" /\ pc' # "tick" /\ DeadlinePassed)
            => pc' = "timeout"]_vars

\* C9, as stated: the loop ends the run normally at the first tick start where
\* no spec is pending, every agent is done and no review session is tracked.
C9_EndsWheneverFinished ==
    [][(pc = "tick" /\ pc' # "tick" /\ NothingLeft) => pc' = "ended"]_vars

\* The run ended normally after a review session was tracked and completed.
C9_Witness ==
    /\ pc = "ended"
    /\ args.review
    /\ Cardinality(DOMAIN rt) > Cardinality(DOMAIN agents)

Startable(item) ==
    /\ item.wait = NoWait
    /\ deps_satisfied(item.deps, agents)
    /\ NonDone(agents) < max_parallel

InGateWait == pc \in {"boot_wait", "sched_wait"}

\* C11: a spec waiting on a gate that is not ready delays its own start only:
\* by the time its wait has slept a second time, the loop has gone on and every
\* other startable spec has been started.
C11_OnlyGatedStartDelayed ==
    (InGateWait /\ wait_hist[waiting.index].sleeps >= 2)
        => \A k \in 1..Len(pending_prompts) : ~Startable(pending_prompts[k])

\* The documented encoding of the five decisions, per method family.
DecisionWord ==
    [legacy |-> [a |-> "approved", s |-> "approved_for_session",
                 p |-> "approved_execpolicy_amendment", d |-> "denied", c |-> "abort"],
     current |-> [a |-> "accept", s |-> "acceptForSession",
                  p |-> "acceptWithExecpolicyAmendment", d |-> "decline",
                  c |-> "cancel"]]

AmendmentKey ==
    [legacy |-> "proposed_execpolicy_amendment", current |-> "execpolicyAmendment"]

Family(method) ==
    IF method \in {"applyPatchApproval", "execCommandApproval"} THEN "legacy"
    ELSE "current"

\* C12: get_decision_payload returns the documented word of the choice for the
\* family of the method, with the amendment under it for choice p; and no
\* payload for p without a proposed amendment and for every other letter.
C12_DecisionEncoding ==
    (lab.fn = "get_decision_payload" /\ lab.applied) =>
        LET words == DecisionWord[Family(lab.method)]
            proposed == lab.amendment \notin {None, ""}
        IN  CASE lab.choice = "a" -> lab.out = <<"decision", words.a>>
              [] lab.choice = "s" -> lab.out = <<"decision", words.s>>
              [] lab.choice = "d" -> lab.out = <<"decision", words.d>>
              [] lab.choice = "c" -> lab.out = <<"decision", words.c>>
              [] lab.choice = "p" /\ proposed ->
                    lab.out = <<"decision", words.p, AmendmentKey[Family(lab.method)],
                                lab.amendment>>
              [] OTHER -> lab.out = NoPayload

\* The amendment choice on a legacy patch approval that proposed one.
C12_Witness ==
    /\ lab.fn = "get_decision_payload" /\ lab.applied
    /\ lab.method = "applyPatchApproval" /\ lab.choice = "p"
    /\ lab.amendment = "amend"
    /\ lab.out = <<"decision", "approved_execpolicy_amendment",
                   "proposed_execpolicy_amendment", "amend">>

\* A piece of a prompt that is a recognized directive.
IsAgentDirective(part) ==
    Strip(part) # <<>>
    /\ Head(Strip(part)) \in {WAIT_FOR_AGENT, WAIT_FOR_AGENT_DONE, WAIT_FOR_AGENTS}

IsStatusDirective(part) ==
    /\ Strip(part) # <<>>
    /\ Head(Strip(part)) = WAIT_FOR_STATUS
    /\ Contains(Tail(Strip(part)), "|")

IsDirective(part) == IsAgentDirective(part) \/ IsStatusDirective(part)

\* The number of pieces of the directive run at the head of parts.
RunLength(parts) ==
    CHOOSE k \in 0..Len(parts) :
        /\ \A i \in 1..k : IsDirective(parts[i])
        /\ k < Len(parts) => ~IsDirective(parts[k + 1])

\* The dependency tokens of the first k pieces, in order of appearance.
RECURSIVE RunDeps(_, _)
RunDeps(parts, k) ==
    IF k = 0 THEN <<>>
    ELSE RunDeps(parts, k - 1)
         \o (IF IsAgentDirective(parts[k]) THEN DirectiveDeps(Tail(Strip(parts[k])))
             ELSE <<>>)

\* The gate of the last readiness-wait directive among the first k pieces.
RunWait(parts, k) ==
    LET S == {i \in 1..k : IsStatusDirective(parts[i])} IN
    IF S = {} THEN NoGate
    ELSE LET last == CHOOSE i \in S : \A j \in S : j <= i
         IN  DirectiveWait(Strip(Tail(Strip(parts[last]))))

Extracted == lab.fn = "extract_directives" /\ lab.applied

\* C13, as amended: extract_directives consumes the directive run at the head
\* of the `||`-separated pieces only; the tokens of its dependency directives
\* accumulate in order, its last readiness-wait directive gives the gate, and
\* the body is everything behind the run, rejoined with `||` and stripped of
\* the whitespace at its two ends.
C13_DirectiveRunOnly ==
    Extracted =>
        LET parts == SplitBars(lab.prompt, <<>>)
            k == RunLength(parts)
        IN  /\ lab.deps = RunDeps(parts, k)
            /\ lab.wait = RunWait(parts, k)
            /\ lab.body = Strip(JoinBars(SubSeq(parts, k + 1, Len(parts))))

\* C13, as stated: the body is everything behind the directive run, rejoined
\* with `||`.
C13_BodyVerbatim ==
    Extracted =>
        LET parts == SplitBars(lab.prompt, <<>>)
            k == RunLength(parts)
        IN  /\ lab.deps = RunDeps(parts, k)
            /\ lab.wait = RunWait(parts, k)
            /\ lab.body = JoinBars(SubSeq(parts, k + 1, Len(parts)))

\* "WAIT_FOR_AGENT:1,2||WAIT_FOR_STATUS:/tmp/x|ready||do the work"
C13_Witness ==
    /\ Extracted
    /\ lab.prompt = <<WAIT_FOR_AGENT, "1", ",", "2", "|", "|",
                      WAIT_FOR_STATUS, "/tmp/x", "|", "ready", "|", "|",
                      "do", " ", "the", " ", "work">>
    /\ lab.body = <<"do", " ", "the", " ", "work">>
    /\ lab.deps = << <<"1">>, <<"2">> >>
    /\ lab.wait = << <<"/tmp/x">>, <<"ready">> >>

\* text without its carriage returns
RECURSIVE DropCR(_)
DropCR(text) ==
    IF text = <<>> THEN <<>>
    ELSE IF Head(text) = "\r" THEN DropCR(Tail(text))
    ELSE <<Head(text)>> \o DropCR(Tail(text))

RECURSIVE SkipBlanks(_)
SkipBlanks(line) ==
    IF line # <<>> /\ Head(line) \in {" ", "\t"} THEN SkipBlanks(Tail(line)) ELSE line

\* line begins with a list marker, or with digits and a `.` right behind them
BeginsWithMarker(line) ==
    /\ line # <<>>
    /\ \/ Head(line) \in {"-", "*", "+", "#"}
       \/ \E n \in 1..(Len(line) - 1) :
             /\ \A k \in 1..n : line[k] \in Digits
             /\ line[n + 1] = "."

\* The rule on a text without carriage returns.
RECURSIVE FlattenBreaks(_)
FlattenBreaks(text) ==
    IF text = <<>> THEN <<>>
    ELSE IF Head(text) # "\n" THEN <<Head(text)>> \o FlattenBreaks(Tail(text))
    ELSE IF Len(text) >= 2 /\ text[2] = "\n"
    THEN <<"\n">> \o FlattenBreaks(SubSeq(text, 3, Len(text)))
    ELSE IF BeginsWithMarker(SkipBlanks(Tail(text)))
    THEN <<"\n">> \o FlattenBreaks(Tail(text))
    ELSE <<" ">> \o FlattenBreaks(Tail(text))

\* C14: normalize_summary_text (and normalize_agent_text) equals the rule:
\* carriage returns dropped, a double line break made one, a single line break
\* made a space unless the next line begins, behind blanks and tabs, with a
\* list marker or with digits followed by `.`.
C14_NormalizeIsRule ==
    (lab.fn = "normalize_summary_text" /\ lab.applied) =>
        /\ lab.out = FlattenBreaks(DropCR(lab.text))
        /\ lab.agent_out = lab.out

\* The event about to be processed is an exited-review-mode item whose id has
\* an artifact already.
DuplicateExit ==
    /\ pc = "event" /\ events # <<>>
    /\ Head(events).item.type = "exitedReviewMode"
    /\ \E k \in 1..Len(reviewed.artifacts) :
          reviewed.artifacts[k].review_id = Head(events).item.id

\* C15: no two artifacts carry the same review id; processing an
\* exited-review-mode item whose id has an artifact writes no artifact and adds
\* nothing to the agent's history or to recent_logs.
C15_OneArtifactPerReview ==
    /\ [](\A j, k \in 1..Len(reviewed.artifacts) :
            reviewed.artifacts[j].review_id = reviewed.artifacts[k].review_id => j = k)
    /\ [][(DuplicateExit /\ events' # events) =>
            /\ reviewed'.artifacts = reviewed.artifacts
            /\ reviewed'.history = reviewed.history
            /\ reviewed'.recent_logs = reviewed.recent_logs]_vars

\* Three exited-review-mode items with output and the same id were processed:
\* there is one artifact, one history entry, one log line.
C15_Witness ==
    /\ reviewed.exited = <<"r1", "r1", "r1">>
    /\ Len(reviewed.artifacts) = 1
    /\ Len(reviewed.history) = 1
    /\ Len(reviewed.recent_logs) = 1

\* The step is the reader's, on the line msg.
ReaderTakes(msg) ==
    /\ server.stdout # <<>>
    /\ msg = Head(server.stdout)
    /\ server'.stdout = Tail(server.stdout)

\* Where the reader's step put msg.
ToRequests(msg) ==
    /\ server'.requests = Append(server.requests, msg)
    /\ server'.events = server.events
    /\ server'.responses = server.responses

ToEvents(msg) ==
    /\ server'.events = Append(server.events, msg)
    /\ server'.requests = server.requests
    /\ server'.responses = server.responses

ToResponses(msg) ==
    /\ msg.id # 0
    /\ DOMAIN server'.responses = DOMAIN server.responses \cup {msg.id}
    /\ server'.responses[msg.id] = msg
    /\ \A k \in DOMAIN server.responses \ {msg.id} :
          server'.responses[k] = server.responses[k]
    /\ server'.requests = server.requests
    /\ server'.events = server.events

Nowhere ==
    /\ server'.requests = server.requests
    /\ server'.events = server.events
    /\ server'.responses = server.responses

\* C16: the reader puts every parsed message, as it is, into exactly one of
\* the request queue (method and id, no result, no error), the response map
\* (id only, with result or error) and the event queue (method, no id); it
\* drops a line that does not parse and goes on with the next line.
C16_OneDestination ==
    [][\A msg \in Lines : ReaderTakes(msg) =>
        /\ msg.kind \in {"object", "scalar"} =>
              /\ ToRequests(msg) \/ ToResponses(msg) \/ ToEvents(msg)
              /\ (msg.method /\ msg.id # 0 /\ ~msg.result /\ ~msg.error)
                    => ToRequests(msg)
              /\ (~msg.method /\ msg.id # 0 /\ (msg.result \/ msg.error))
                    => ToResponses(msg)
              /\ (msg.method /\ msg.id = 0) => ToEvents(msg)
        /\ msg.kind = "garbage" => (Nowhere /\ server'.reader = "running")]_vars

Requesting(f) == server.flows[f].op = "request"

\* C17: request() returns the response stored under the id it allocated and no
\* other, and takes it out of the response map; it raises the timeout error
\* only when its time is up and no such response is stored; and a waiting
\* request() always ends, with its response or with the timeout error, whatever
\* the reader and the subprocess do.
C17_RequestGetsItsResponse ==
    /\ [](\A f \in Flows : (Requesting(f) /\ server.flows[f].pc = "done")
            => server.flows[f].returned = server.flows[f].req_id)
    /\ [][\A f \in Flows :
            /\ (server.flows[f].pc = "wait" /\ server'.flows[f].pc = "done")
                  => /\ server.flows[f].req_id \in DOMAIN server.responses
                     /\ server.flows[f].req_id \notin DOMAIN server'.responses
            /\ (server.flows[f].pc = "wait" /\ server'.flows[f].pc = "timeout")
                  => server.flows[f].req_id \notin DOMAIN server.responses]_vars
    /\ \A f \in Flows :
          (server.flows[f].pc = "wait") ~> (server.flows[f].pc \in {"done", "timeout"})

\* One request got a response that was stored before it began to wait; the
\* other, waiting for a response that never came, timed out after the
\* subprocess had exited and the reader had ended.
C17_Witness ==
    /\ Requesting(1) /\ server.flows[1].pc = "done" /\ server.flows[1].early
    /\ Requesting(2) /\ server.flows[2].pc = "timeout"
    /\ server.reader = "ended"

\* The positions of the wire at which a request line begins.
RequestHeads ==
    {k \in 1..Len(server.stdin) :
        server.stdin[k].op = "request" /\ server.stdin[k].part = "head"}

InsideLock(f) == server.flows[f].pc \in {"alloc", "incr", "write", "flush"}

\* C18: every message goes out as one whole line, written by the flow that
\* holds the write lock; the request ids on the wire are 1, 2, 3, ... in this
\* order, and no two flows hold the same id.
C18_WholeLinesIdsInOrder ==
    /\ \A k \in 1..Len(server.stdin) :
          IF k % 2 = 1
          THEN /\ server.stdin[k].part = "head"
               /\ k = Len(server.stdin)
                     => /\ server.lock = server.stdin[k].flow
                        /\ server.flows[server.stdin[k].flow].pc = "flush"
          ELSE /\ server.stdin[k].part = "tail"
               /\ server.stdin[k] = [server.stdin[k - 1] EXCEPT !.part = "tail"]
    /\ \A f \in Flows : InsideLock(f) => server.lock = f
    /\ \A k \in RequestHeads :
          server.stdin[k].id = Cardinality({j \in RequestHeads : j <= k})
    /\ \A f, g \in Flows :
          (f # g /\ Requesting(f) /\ Requesting(g) /\ server.flows[f].req_id # 0)
             => server.flows[f].req_id # server.flows[g].req_id

\* Two flows have each written a request.
C18_Witness ==
    /\ Len(server.stdin) = 4
    /\ server.stdin[1].flow # server.stdin[3].flow
    /\ server.stdin[2].op = "request" /\ server.stdin[2].id = 1
    /\ server.stdin[4].op = "request" /\ server.stdin[4].id = 2

\* C19: a request of the control loop that gets no response before its
\* timeout does not end the loop.
C19_LoopSurvivesTimeouts == pc # "crashed"

\* How often the spec with index i is in the pending queue, and the agent
\* records that own it.
TimesPending(i) ==
    Cardinality({k \in 1..Len(pending_prompts) : pending_prompts[k].index = i})

Owners(i) == {t \in DOMAIN agents : agents[t].index = i}

\* Each spec is in the pending queue once and owned by no agent record, or
\* in the queue no more and owned by one.
PendingOrOwned ==
    \A i \in 1..Len(args.agent) :
        \/ TimesPending(i) = 1 /\ Owners(i) = {}
        \/ TimesPending(i) = 0 /\ Cardinality(Owners(i)) = 1

StopStartsTurn(t) ==
    /\ turn_log' = Append(turn_log, [thread_id |-> t,
                                     prompt |-> StopPrompt(outputs.n + 1)])
    /\ rt'[t].inflight = rt[t].inflight + 1
    /\ ~agents'[t].done

StopQueued(t) ==
    /\ agents'[t].queued_prompts
       = Append(agents[t].queued_prompts, StopPrompt(outputs.n + 1))
    /\ queued_log' = Append(queued_log, [thread_id |-> t,
                                         prompt |-> StopPrompt(outputs.n + 1)])

StopCancelled == outputs'.last = "turn cancelled"

\* C21: a stop command for an agent has exactly one of three outcomes: for an
\* agent that is done, a Stop prompt is started as a new turn; for a running
\* agent whose turn/cancel is accepted, "turn cancelled" is recorded and
\* nothing is queued; for a running agent whose turn/cancel is rejected or
\* fails, a Stop prompt goes to the back of the agent's follow-up queue and no
\* turn/start is sent.
C21_StopOutcomes ==
    [][\A key \in Keys, resp \in CancelResponses :
          (OperatorStop(key, resp) /\ resolve_agent(agents, key) # NoThread)
          => LET t == resolve_agent(agents, key) IN
             /\ agents[t].done
                   => /\ StopStartsTurn(t)
                      /\ ~StopCancelled
                      /\ agents'[t].queued_prompts = agents[t].queued_prompts
                      /\ queued_log' = queued_log
             /\ (~agents[t].done /\ resp = "ok")
                   => /\ StopCancelled
                      /\ agents' = agents
                      /\ queued_log' = queued_log
                      /\ turn_log' = turn_log
                      /\ rt' = rt
             /\ (~agents[t].done /\ resp # "ok")
                   => /\ StopQueued(t)
                      /\ ~StopCancelled
                      /\ ~agents'[t].done
                      /\ turn_log' = turn_log
                      /\ rt' = rt]_vars

\* One stop command was queued after a rejected turn/cancel and sent when the
\* turn ended, and a second one, for the agent then done, started a turn.
C21_Witness ==
    \E t \in DOMAIN agents :
        /\ PromptsOf(queued_log, t) = <<StopPrompt(1)>>
        /\ PromptsOf(turn_log, t) = <<InitialPrompt, StopPrompt(1), StopPrompt(2)>>

\* C22: with an overall deadline configured, every tick start checks it, and
\* the tick start that finds it passed aborts the run with the fatal timeout,
\* in runs in which every request was answered in time; no other tick start
\* aborts; and a run with --timeout 0 never aborts on the overall deadline.
C22_DeadlineCheckedEveryTick ==
    /\ [][(pc = "tick" /\ pc' # "tick")
            => (pc' = "timeout" <=> (args.timeout > 0 /\ expired))]_vars
    /\ [][(pc' = "timeout" /\ pc # "timeout") => (args.timeout > 0 /\ expired)]_vars
    /\ [](args.timeout = 0 => pc # "timeout")

\* The run was aborted on its deadline while an agent was running, with every
\* request of the run answered.
C22_Witness ==
    /\ pc = "timeout"
    /\ args.timeout > 0
    /\ Len(turn_log) = 2
    /\ \E t \in DOMAIN agents : ~agents[t].done

\* An iteration is over: the loop is back at the top of `while True`, or the
\* run was aborted on its deadline.
TickOver == pc \in {"tick", "timeout"}

\* C23: every iteration of the control loop completes: once the loop has
\* passed the top of an iteration it gets back there (or the deadline aborts
\* the run), whatever the operator and the gate file do, and so what arrives
\* meanwhile is taken up by a later iteration.
C23_TickCompletes == (pc = "sched") ~> TickOver

\* Nothing can progress any more: every agent is done, no review session is
\* tracked, and every pending spec has a dependency that leads to a token
\* naming no spec.
Stalled ==
    /\ pending_prompts # <<>>
    /\ \A k \in 1..Len(pending_prompts) :
          pending_prompts[k].index \notin Independent(Len(args.agent))
    /\ \A t \in DOMAIN agents : agents[t].done
    /\ DOMAIN pending_reviews = {}

\* The loop is in one of its iterations.
Ticking == pc \in {"tick", "sched", "sched_wait", "drain", "approval", "asking",
                   "input", "event"}

\* C24: a run in which nothing can progress any more leaves the loop with a
\* no-progress outcome instead of ticking for ever.
C24_StallIsExposed == Stalled ~> ~Ticking

\* Token d names no spec of the command line: no agent will ever answer to it.
NamesNobody(d) == \A j \in 1..Len(args.agent) : ~Names(d, j)

\* start_ready_agents is about to hand deps_satisfied the spec at the head of
\* the queue, and deps_satisfied will get as far as a token that names nobody.
UnknownTokenExamined ==
    /\ pc \in {"boot", "sched"}
    /\ pending_prompts # <<>>
    /\ NonDone(agents) < max_parallel
    /\ LET deps == Head(pending_prompts).deps IN
       \E k \in 1..Len(deps) :
          /\ NamesNobody(deps[k])
          /\ \A j \in 1..(k - 1) : deps_satisfied(<<deps[j]>>, agents)

\* An operator command with a reference that resolves to no agent.
UnknownInCommand ==
    \E key \in Keys \cup {<<"1">>} :
        /\ resolve_agent(agents, key) = NoThread
        /\ \/ OperatorPrompt(key)
           \/ \E resp \in CancelResponses : OperatorStop(key, resp)
           \/ \E choice \in Choices \cup {NoChoice} : OperatorApprove(key, choice)
           \/ \E choice \in Choices \ {"x"} : OperatorChoice(key, choice)

\* What an unknown reference must leave alone.
UnknownLeavesAlone ==
    /\ agents' = agents
    /\ pending_prompts' = pending_prompts
    /\ approval_queue' = approval_queue
    /\ approvals_by_thread' = approvals_by_thread
    /\ pc' \notin {"crashed", "quit", "timeout"}

\* C25: an agent reference that resolves to no agent, in an operator command
\* or as a dependency token, is reported to the operator as an unknown agent,
\* does not abort the run, and leaves the agents, the pending queue and the
\* approval indices as they were.
C25_UnknownAgentReported ==
    /\ [][UnknownInCommand
            => (outputs'.last = "Unknown agent" /\ UnknownLeavesAlone)]_vars
    /\ [][(UnknownTokenExamined /\ pc' # pc)
            => (outputs'.last = "Unknown agent" /\ UnknownLeavesAlone)]_vars

\* C26: once an agent record exists, no step of the run changes its thread_id
\* or the key it is registered under: the record stays under its key, with the
\* thread_id and the index it was created with, and the key is its thread_id.
C26_ThreadIdNeverChanges ==
    /\ [](\A t \in DOMAIN agents : agents[t].thread_id = t)
    /\ [][\A t \in DOMAIN agents :
            /\ t \in DOMAIN agents'
            /\ agents'[t].thread_id = agents[t].thread_id
            /\ agents'[t].index = agents[t].index]_vars

\* An agent went through a follow-up turn typed by the operator and through
\* the spawn of its review, and is registered as it was.
C26_Witness ==
    \E t \in DOMAIN agents :
        /\ agents[t].review_thread # 0
        /\ Len(PromptsOf(turn_log, t)) >= 2
        /\ agents[t].thread_id = t

\* Dependency token d names an agent that is done: by index when the token is
\* all digits, by name otherwise.
NamesDoneAgent(d) ==
    \E u \in DOMAIN agents :
        /\ agents[u].done
        /\ IF IsDigit(d) THEN agents[u].index = ToInt(d) ELSE agents[u].name = d

\* The agents a step starts: thread ids are given out in the order of the
\* thread/start requests, so those started before t within the step are the
\* new ones with a smaller id.
StartedNow == DOMAIN agents' \ DOMAIN agents

\* C27: when the scheduler issues thread/start for a spec, every dependency
\* token of the spec names an agent that is done, and the number of agents
\* that are not done is strictly below the cap.
C27_StartsOnlyWhenReady ==
    [][\A t \in StartedNow :
          /\ \A d \in Range(args.agent[agents'[t].index].deps) : NamesDoneAgent(d)
          /\ NonDone(agents) + Cardinality({u \in StartedNow : u < t})
             < max_parallel]_vars

\* A spec with a dependency was started, under a cap of one, once the agent
\* it names was done.
C27_Witness ==
    \E t \in DOMAIN agents :
        /\ args.agent[agents[t].index].deps # <<>>
        /\ args.max_parallel = 1
        /\ ~agents[t].done

\* A call of start_ready_agents is under way / returns with this step.
Scanning == pc \in {"boot", "sched", "boot_wait", "sched_wait"}
ScanReturns == Scanning /\ pc' \in {"tick", "drain"}

\* The spec at position k of the queue is not started by this step.
Kept(k) == \A t \in StartedNow : agents'[t].index # pending_prompts[k].index

\* The specs of queue q that this step does not start, in the order of q.
RECURSIVE KeptOf(_)
KeptOf(q) ==
    IF q = <<>> THEN <<>>
    ELSE IF \A t \in StartedNow : agents'[t].index # Head(q).index
    THEN <<Head(q)>> \o KeptOf(Tail(q))
    ELSE KeptOf(Tail(q))

\* The number of agents not done when the scan came to position k.
NonDoneAt(k) ==
    NonDone(agents) + Cardinality(StartedNow)
    - Cardinality({j \in k..Len(pending_prompts) : ~Kept(j)})

\* What a scan leaves behind: the specs it did not start, those it had set
\* aside first, in their order; no spec twice; and a spec is left only if its
\* dependencies were not satisfied or the cap was reached when its turn came.
C28_ScanLeavesTheBlocked ==
    [][ScanReturns =>
        /\ pending_prompts' = remaining \o KeptOf(pending_prompts)
        /\ remaining' = <<>>
        /\ \A i, j \in 1..Len(pending_prompts') :
              pending_prompts'[i].index = pending_prompts'[j].index => i = j
        /\ \A k \in 1..Len(pending_prompts) :
              Kept(k) => \/ ~deps_satisfied(pending_prompts[k].deps, agents)
                         \/ NonDoneAt(k) >= max_parallel]_vars

\* C28: a scheduler tick examines each queued spec at most once and always
\* finishes; afterwards the queue holds exactly the specs that were not
\* started, in their original relative order, none of them skipped while it
\* was startable and the cap was not reached.
C28_ScanOnceAndFinishes ==
    /\ C28_ScanLeavesTheBlocked
    /\ (pc = "sched") ~> ~Scanning

\* The loop is about to process a turn/completed of thread t.
ProcessesTurnCompleted(t) ==
    /\ pc = "event"
    /\ events # <<>>
    /\ Head(events) = [method |-> "turn/completed", thread_id |-> t]
    /\ pc' # pc

\* The review of the agent on thread t is tracked / has completed.
ReviewTracked(t) ==
    /\ agents[t].review_thread \in DOMAIN pending_reviews
    /\ pending_reviews[agents[t].review_thread] = agents[t].index

ReviewCompleted(t) ==
    /\ agents[t].review_thread \in DOMAIN rt
    /\ agents[t].review_thread \notin DOMAIN pending_reviews
    /\ rt[agents[t].review_thread].inflight = 0

\* C29: the step that processes a turn/completed of an agent, with automatic
\* review enabled and a last message present, starts a new session for the
\* review and records it under the index of the agent; no tick start finds
\* such an agent done with its review neither tracked nor completed; and a
\* session leaves pending_reviews in the step that processes its own
\* turn/completed, and in no other.
C29_ReviewTrackedAtOnce ==
    /\ [][\A t \in DOMAIN agents :
            (ProcessesTurnCompleted(t) /\ args.review /\ agents[t].last_message # None)
            => LET r == NextThread(rt) IN
               /\ r \notin DOMAIN pending_reviews
               /\ r \in DOMAIN pending_reviews'
               /\ pending_reviews'[r] = agents[t].index
               /\ r \in DOMAIN rt' /\ rt'[r].inflight = 1
               /\ turn_log'[Len(turn_log')] = [thread_id |-> r, prompt |-> InitialPrompt]]_vars
    /\ [](pc = "tick" /\ args.review
            => \A t \in DOMAIN agents :
                  (agents[t].done /\ agents[t].last_message # None)
                  => (ReviewTracked(t) \/ ReviewCompleted(t)))
    /\ [][\A r \in DOMAIN pending_reviews :
            r \notin DOMAIN pending_reviews' <=> ProcessesTurnCompleted(r)]_vars

\* The review of an agent was tracked at a tick start and its session has
\* completed since, while the review of another agent is still tracked.
C29_Witness ==
    /\ pc = "tick"
    /\ \E t, u \in DOMAIN agents :
          /\ agents[t].done /\ agents[t].last_message # None /\ ReviewCompleted(t)
          /\ agents[u].done /\ agents[u].last_message # None /\ ReviewTracked(u)

\* The session in which the runtime runs the review a command asks for.
ReviewSession(key, detached) ==
    IF detached THEN NextThread(rt) ELSE resolve_agent(agents, key)

\* C30: a review session started by a `review` command is tracked from the
\* moment review/start returns; it stays tracked, and so keeps the run from
\* ending, until its own turn/completed is processed, and that event removes
\* it from tracking.
C30_OperatorReviewTracked ==
    /\ [][\A key \in {<<"1">>, <<"9">>}, detached \in BOOLEAN :
            (OperatorReview(key, detached) /\ resolve_agent(agents, key) # NoThread)
            => ReviewSession(key, detached) \in DOMAIN pending_reviews']_vars
    /\ [](pc = "ended" => \A r \in DOMAIN rt : rt[r].inflight = 0)
    /\ [][\A r \in DOMAIN pending_reviews :
            r \in DOMAIN pending_reviews' \/ ProcessesTurnCompleted(r)]_vars

\* The entries of a history that carry a given tag, in order
Entries(tag, history) == SelectSeq(history, LAMBDA e : e.tag = tag)

\* The characters of the lines of a sequence of entries, in order
RECURSIVE LinesText(_)
LinesText(entries) ==
    IF entries = <<>> THEN <<>> ELSE Head(entries).line \o LinesText(Tail(entries))

\* A text without its blanks and line breaks
Inked(text) == SelectSeq(text, LAMBDA c : c \notin Whitespace)

\* The step processes an event of the given method for thread t
Processes(method, t) ==
    /\ pc = "event"
    /\ events # <<>>
    /\ events' = Tail(events)
    /\ Head(events).method = method
    /\ Head(events).thread_id = t

\* What a history gained in the step
Gained(t) == SubSeq(agents'[t].history, Len(agents[t].history) + 1,
                    Len(agents'[t].history))

\* C31: a delta of agent text adds no history entry when it is processed; the
\* history gains `agent:` entries only in a step that processes the completion
\* of an agentMessage item or of the turn of that agent; what it gains then are
\* the stripped non-empty lines of the normalized accumulator, in order, with
\* every character of the streamed text once; and after such a step the
\* accumulator is empty.
C31_AgentTextFlushedOnCompletion ==
    [][\A t \in DOMAIN agents :
        LET gained == Entries("agent", Gained(t)) IN
        /\ Len(agents'[t].history) >= Len(agents[t].history)
        /\ SubSeq(agents'[t].history, 1, Len(agents[t].history)) = agents[t].history
        /\ Processes("item/agentMessage/delta", t) =>
              /\ agents'[t].history = agents[t].history
              /\ agents'[t].agent_buffer = agents[t].agent_buffer \o Head(events).delta
        /\ gained # <<>> =>
              Processes("item/completed", t) \/ Processes("turn/completed", t)
        /\ (Processes("item/completed", t) \/ Processes("turn/completed", t)) =>
              /\ agents'[t].agent_buffer = <<>>
              /\ gained = FlushedLines("agent", agents[t].agent_buffer)
              /\ Inked(LinesText(gained)) = Inked(agents[t].agent_buffer)
              /\ \A k \in 1..Len(gained) :
                    /\ gained[k].line # <<>>
                    /\ gained[k].line = Strip(gained[k].line)
                    /\ \A j \in 1..Len(gained[k].line) : gained[k].line[j] # "\n"]_vars

\* An agentMessage item completed and flushed two lines, more agent text has
\* arrived since, and the turn is still running.
C31_Witness ==
    \E t \in DOMAIN agents :
        /\ ~agents[t].done
        /\ Len(Entries("agent", agents[t].history)) >= 2
        /\ agents[t].agent_buffer # <<>>

\* C32: the history gains `summary:` entries only in a step that processes the
\* turn/completed event of that agent; a summary delta and the completion of
\* an agentMessage item leave the history without a new `summary:` entry and
\* the latter leaves the summary accumulator as it was; on turn completion the
\* history gains the flushed `agent:` lines, then the `summary:` lines of the
\* normalized accumulator, then the turn line, and the accumulator is empty.
C32_SummaryFlushedOnTurnCompletion ==
    [][\A t \in DOMAIN agents :
        /\ Entries("summary", Gained(t)) # <<>> => Processes("turn/completed", t)
        /\ Processes("item/reasoning/summaryTextDelta", t) =>
              /\ agents'[t].history = agents[t].history
              /\ agents'[t].summary_buffer =
                    agents[t].summary_buffer \o Head(events).delta
        /\ Processes("item/completed", t) =>
              agents'[t].summary_buffer = agents[t].summary_buffer
        /\ Processes("turn/completed", t) =>
              /\ agents'[t].summary_buffer = <<>>
              /\ Gained(t) = FlushedLines("agent", agents[t].agent_buffer)
                             \o FlushedLines("summary", agents[t].summary_buffer)
                             \o <<TurnLine>>
              /\ Inked(LinesText(Entries("summary", Gained(t))))
                    = Inked(agents[t].summary_buffer)]_vars

\* A turn completed with agent text and summary text accumulated after an
\* agentMessage item had completed: the history ends with an `agent:` line, a
\* `summary:` line and the turn line.
C32_Witness ==
    \E t \in DOMAIN agents :
        LET h == agents[t].history IN
        /\ agents[t].last_message # None
        /\ Len(h) >= 3
        /\ h[Len(h) - 2].tag = "agent"
        /\ h[Len(h) - 1].tag = "summary"
        /\ h[Len(h)] = TurnLine

\* The positions of the loop inside one iteration
InTick == {"sched", "drain", "approval", "asking", "input", "event"}

\* The step dispatches an operator input line
DispatchesLine == outputs'.n = outputs.n + 1

\* The step takes an event off the queue and processes it
ProcessesEvent == pc = "event" /\ events # <<>> /\ events' = Tail(events)

\* The place of a position in the order scheduler tick, drain, approval,
\* operator input, event
PlainRank(p) ==
    CASE p = "sched" -> 1 [] p = "drain" -> 2 [] p = "approval" -> 3
      [] p = "asking" -> 4 [] p = "input" -> 5 [] p = "event" -> 6

\* C33: in both front ends the steps of an iteration come in the order
\* scheduler tick, drain, approval, operator input, event, and an iteration
\* dispatches at most one operator line and processes at most one event.
C33_TickOrder ==
    [][/\ (pc \in InTick /\ pc' \in InTick /\ pc' # pc) => PlainRank(pc') > PlainRank(pc)
       /\ DispatchesLine => (pc = "input" /\ pc' # pc)
       /\ Len(events') < Len(events) => (ProcessesEvent /\ pc' # pc)]_vars

\* The successions of positions of run_plain and of run_curses
PlainOrder ==
    {<<"sched", "drain">>, <<"drain", "approval">>, <<"approval", "asking">>,
     <<"approval", "input">>, <<"asking", "input">>, <<"input", "event">>,
     <<"event", "tick">>}
CursesOrder ==
    {<<"sched", "drain">>, <<"drain", "event">>, <<"event", "input">>,
     <<"input", "tick">>}

\* C33, amended: run_plain's iteration goes scheduler tick, drain of all
\* available requests, approval, operator input, event; run_curses' iteration
\* goes scheduler tick, drain, event, operator input and has no approval step;
\* in both, a line is dispatched only by the input step and an event is
\* processed only by the event step, each of which is left at once and entered
\* once per iteration.
C33_TickOrderPerFrontEnd ==
    [][/\ (pc \in InTick /\ pc' # pc) =>
              <<pc, pc'>> \in (IF args.frontend = "plain" THEN PlainOrder
                               ELSE CursesOrder)
       /\ (pc = "drain" /\ pc' # pc) => requests' = <<>>
       /\ DispatchesLine => (pc = "input" /\ pc' # pc)
       /\ Len(events') < Len(events) => (ProcessesEvent /\ pc' # pc)]_vars

\* run_curses is at its input step after it processed a turn/completed event
\* and dispatched a line in an earlier iteration.
C33_Witness ==
    /\ args.frontend = "curses"
    /\ pc = "input"
    /\ completed # {}
    /\ outputs.n >= 1
    /\ events = <<>>

\* The step is a decision of the operator: an answer to run_plain's prompt or
\* an approval command
OperatorDecides ==
    \/ \E choice \in Choices : OperatorAnswers(choice)
    \/ \E target \in {NoKey, <<"1">>}, choice \in Choices \cup {NoChoice} :
          OperatorApprove(target, choice)
    \/ \E key \in {<<"1">>, <<"B">>}, choice \in Choices \ {"x"} : OperatorChoice(key, choice)

\* C34: a response to an approval request is written only by a step in which
\* the operator decides, it is one response, for a request the front end
\* holds, with the payload of a choice; the drain step only queues the
\* requests, and the scheduler step, the event step and the end of the run
\* write no response.
C34_ResponseOnlyByOperator ==
    [][/\ responded' # responded =>
              /\ OperatorDecides
              /\ \E e \in PendingEntries, choice \in {"a", "s", "p", "d", "c"} :
                    /\ get_decision_payload(e.method, choice, e.amendment) # NoPayload
                    /\ responded' =
                          Append(responded,
                                 [req_id |-> e.req_id,
                                  decision |-> get_decision_payload(e.method, choice,
                                                                    e.amendment)])
       /\ (pc = "drain" /\ pc' # pc) =>
              /\ responded' = responded
              /\ Len(approval_queue') = Len(approval_queue) + Len(requests)]_vars

\* The run has ended after the operator answered one request, with another
\* request drained and never answered.
C34_Witness ==
    /\ pc = "ended"
    /\ responded # <<>>
    /\ \E k \in 1..Len(approval_queue) :
          \A j \in 1..Len(responded) : responded[j].req_id # approval_queue[k].req_id

\* The request ids answered so far
Answered == {responded[j].req_id : j \in 1..Len(responded)}

\* The ids of the requests that are held by an index and have no response yet,
\* of every session and of session t
PendingIds == {e.req_id : e \in {x \in PendingEntries : x.req_id \notin Answered}}
PendingIdsOf(t) ==
    {e.req_id : e \in {x \in PendingEntries :
                          x.req_id \notin Answered /\ x.thread_id = t}}

\* The step writes one response, to the request id
Resolves(id) ==
    /\ Len(responded') = Len(responded) + 1
    /\ responded'[Len(responded')].req_id = id

\* C35: a choice command or an approve command that names an agent and writes
\* a response writes it to the oldest request of that agent's session that is
\* still pending; an approve command that names no agent, and an answer to
\* run_plain's prompt, write it to the oldest request still pending overall.
\* Request ids grow in the order of arrival.
C35_OldestFirst ==
    [][/\ \A key \in {<<"1">>, <<"B">>}, choice \in Choices :
             (OperatorChoice(key, choice) /\ responded' # responded) =>
                 /\ PendingIdsOf(resolve_agent(agents, key)) # {}
                 /\ Resolves(Min(PendingIdsOf(resolve_agent(agents, key))))
       /\ \A choice \in Choices :
             (OperatorApprove(<<"1">>, choice) /\ responded' # responded) =>
                 /\ PendingIdsOf(resolve_agent(agents, <<"1">>)) # {}
                 /\ Resolves(Min(PendingIdsOf(resolve_agent(agents, <<"1">>))))
       /\ \A choice \in Choices :
             (OperatorApprove(NoKey, choice) /\ responded' # responded) =>
                 (PendingIds # {} /\ Resolves(Min(PendingIds)))
       /\ \A choice \in Choices :
             (OperatorAnswers(choice) /\ responded' # responded) =>
                 (PendingIds # {} /\ Resolves(Min(PendingIds)))]_vars

\* C36: whenever the loop is at the top of an iteration, an agent whose done
\* flag is true has no queued prompt; a prompt joins an agent's queue only in a
\* step that finds the agent running and leaves it running; and the step that
\* processes a turn/completed event of an agent with a queued prompt leaves the
\* agent running, with that prompt's turn started.
C36_DoneMeansNothingQueued ==
    /\ [](pc = "tick" =>
             \A t \in DOMAIN agents : agents[t].done => agents[t].queued_prompts = <<>>)
    /\ [][\A t \in DOMAIN agents :
             /\ Len(agents'[t].queued_prompts) > Len(agents[t].queued_prompts) =>
                   (~agents[t].done /\ ~agents'[t].done)
             /\ (ProcessesTurnCompleted(t) /\ agents[t].queued_prompts # <<>>) =>
                   /\ ~agents'[t].done
                   /\ agents'[t].queued_prompts = Tail(agents[t].queued_prompts)
                   /\ \E k \in 1..Len(turn_log') :
                         /\ k > Len(turn_log)
                         /\ turn_log'[k] = [thread_id |-> t,
                                            prompt |-> Head(agents[t].queued_prompts)]]_vars

\* An agent completed a turn with two prompts queued and the loop is back at
\* the top of an iteration: the agent is running again, a turn line is in its
\* history and one prompt is still queued.
C36_Witness ==
    /\ pc = "tick"
    /\ \E t \in DOMAIN agents :
          /\ ~agents[t].done
          /\ Len(agents[t].queued_prompts) = 1
          /\ Entries("turn", agents[t].history) # <<>>

\* The step processes an event of a session that is neither an agent's nor a
\* tracked review's
ProcessesStray ==
    /\ pc = "event"
    /\ events # <<>>
    /\ events' = Tail(events)
    /\ Head(events).thread_id \notin DOMAIN agents \cup DOMAIN pending_reviews

\* C37: the step that processes an event of a session that is neither an
\* agent's nor a tracked review's leaves the agent records, pending_reviews,
\* review_labels, review_written, the artifacts and the recent logs as they
\* were, and sends nothing: no turn is started, no response written, the
\* runtime and the AppServer are as before.
C37_StrayEventChangesNothing ==
    [][ProcessesStray =>
          /\ agents' = agents
          /\ pending_reviews' = pending_reviews
          /\ reviewed'.review_labels = reviewed.review_labels
          /\ reviewed'.review_written = reviewed.review_written
          /\ reviewed'.artifacts = reviewed.artifacts
          /\ reviewed'.recent_logs = reviewed.recent_logs
          /\ reviewed'.history = reviewed.history
          /\ completed' = completed
          /\ turn_log' = turn_log
          /\ rt' = rt
          /\ responded' = responded
          /\ server' = server]_vars

\* The detached review session has streamed a delta and completed its turn,
\* and the loop has taken every event of it off the queue.
C37_Witness ==
    /\ events = <<>>
    /\ pending_reviews = <<>>
    /\ \E t \in DOMAIN rt \ DOMAIN agents :
          /\ rt[t].inflight = 0
          /\ rt[t].streamed >= 1
          /\ rt[t].said

\* The step ends a call of start_ready_agents
ScanEnds ==
    /\ pc \in {"boot", "sched", "boot_wait", "sched_wait"}
    /\ pc' \in {"tick", "drain"}

\* What a call of start_ready_agents would make of the state the step leaves
ScanAgain == ScanLoop(ScanState)'

\* C38: a call of start_ready_agents on the state that a call has just left
\* returns without waiting, starts no agent (the agent records, the runtime's
\* sessions and the turns started are the same) and leaves pending_prompts
\* with the same specs in the same order.
C38_SchedulerTickIdempotent ==
    [][ScanEnds =>
          /\ ScanAgain.out = "done"
          /\ ScanAgain.pending_prompts = pending_prompts'
          /\ ScanAgain.remaining = <<>>
          /\ ScanAgain.agents = agents'
          /\ ScanAgain.rt = rt'
          /\ ScanAgain.turn_log = turn_log'
          /\ ScanAgain.wait_hist = wait_hist']_vars

\* A call has returned with one agent started, the cap not reached and two
\* specs left pending, the first of them not the lowest index.
C38_Witness ==
    /\ pc = "drain"
    /\ Len(pending_prompts) = 2
    /\ pending_prompts[1].index # 1
    /\ NonDone(agents) >= 1
    /\ NonDone(agents) < max_parallel

====
